---------------------------- MODULE Spec2Model ----------------------------
(***************************************************************************)
(* HexBeat: the level generator (js/levelGenerator.js), the playback       *)
(* scheduler it owns, the beat grid and energy lookup of the AudioManager  *)
(* (js/audio.js) and the game loop that drives them (js/game.js).          *)
(*                                                                         *)
(* Numbers.  Every JavaScript number of the program is an IEEE-754 binary  *)
(* floating point value.  The model keeps that arithmetic, with a shorter  *)
(* significand: a number is an integer count of 2^-FracBits, every         *)
(* operation computes the exact result and rounds it to MantBits           *)
(* significant bits, ties to even (binary64 is the instance MantBits =     *)
(* 53).  Decimal literals of the source (0.7, 0.025, ...) are rounded the  *)
(* same way by Dec.                                                        *)
(***************************************************************************)
EXTENDS Integers, Sequences, FiniteSets, TLC

\* ------------------------------------------------------------------ bounds
MantBits == 14
FracBits == 19
\* the most getEventsForTime calls logged between two resets
MaxQueries == 3
\* the same, after a generate() whose beats were stepped one by one
GenQueries == 2
\* the AudioContext time, in seconds, after which no further frame is modelled
MaxClock == 15
\* the beats of a track that generate() is followed through, one by one
MaxBeats == 8

\* ------------------------------------------------- floating point numbers
Unit == 2^FracBits

Abs(x) == IF x < 0 THEN -x ELSE x

Sign(x) == IF x < 0 THEN -1 ELSE 1

\* n/d rounded to the nearest integer, ties to the even one (n >= 0, d > 0)
RoundHalfEven(n, d) ==
    LET q == n \div d
        r == n % d
    IN  IF 2 * r > d \/ (2 * r = d /\ q % 2 = 1) THEN q + 1 ELSE q

\* the least shift e >= from with n/(d*2^e) below 2^MantBits
RECURSIVE ShiftFor(_, _, _)
ShiftFor(n, d, from) ==
    IF n \div (d * 2^from) < 2^MantBits THEN from ELSE ShiftFor(n, d, from + 1)

\* the rational n/d (in units) rounded to MantBits significant bits
RoundRat(n, d) ==
    LET e == ShiftFor(n, d, 0)
    IN  RoundHalfEven(n, d * 2^e) * 2^e

\* an exact integer count of units rounded to a representable number
Fl(x) == IF x = 0 THEN 0 ELSE Sign(x) * RoundRat(Abs(x), 1)

\* the significand of a representable number shifted up to MantBits bits
RECURSIVE NormUp(_, _)
NormUp(m, c) ==
    IF m >= 2^(MantBits - 1) THEN [m |-> m, c |-> c] ELSE NormUp(2 * m, c + 1)

Mant(a) ==
    LET e == ShiftFor(a, 1, 0)
        u == NormUp(a \div 2^e, 0)
    IN  [m |-> u.m, e |-> e - u.c]

\* the integer n as a number, and the decimal literal n/d as a number
N(n) == Fl(n * Unit)

Dec(n, d) == RoundRat(n * Unit, d)

FAdd(a, b) == Fl(a + b)

FSub(a, b) == Fl(a - b)

FMul(a, b) ==
    IF a = 0 \/ b = 0 THEN 0
    ELSE LET x == Mant(Abs(a))
             y == Mant(Abs(b))
             k == x.e + y.e - FracBits
             n == x.m * y.m
         IN  Sign(a) * Sign(b) *
             (IF k >= 0 THEN RoundRat(n, 1) * 2^k ELSE RoundRat(n, 2^(-k)))

FDiv(a, b) ==
    IF a = 0 THEN 0
    ELSE LET x == Mant(Abs(a))
             y == Mant(Abs(b))
             k == x.e - y.e + FracBits - MantBits
             n == x.m * 2^MantBits
         IN  Sign(a) * Sign(b) *
             (IF k >= 0 THEN RoundRat(n, y.m) * 2^k ELSE RoundRat(n, y.m * 2^(-k)))

\* Math.floor and Math.min
Floor(a) == a \div Unit

Min(a, b) == IF a < b THEN a ELSE b

\* --------------------------------------------------- sequences (Array)
Includes(seq, x) == \E i \in 1..Len(seq) : seq[i] = x

Items(seq) == {seq[i] : i \in 1..Len(seq)}

RECURSIVE Filter(_, _)
Filter(seq, keep) ==
    IF seq = <<>> THEN <<>>
    ELSE (IF Head(seq) \in keep THEN <<Head(seq)>> ELSE <<>>) \o Filter(Tail(seq), keep)

\* ----------------------------------------------------------- variants
(* Faulty variants of operators below.  A property that is sensitive to     *)
(* the operator fails when the variant takes its place.                     *)
keepOrder(evs) == evs

keepPattern(pattern, lastGaps, pick) == pattern

RECURSIVE InsertByTime(_, _)
InsertByTime(sorted, ev) ==
    IF sorted = <<>> THEN <<ev>>
    ELSE IF ev.time < Head(sorted).time
    THEN <<ev>> \o sorted
    ELSE <<Head(sorted)>> \o InsertByTime(Tail(sorted), ev)

\* an "if" where the scheduler has a "while"
dueOne(evs, index, audioTime) ==
    IF index < Len(evs) /\ evs[index + 1].spawnTime <= audioTime THEN 1 ELSE 0

\* ------------------------------------------------------------ PATTERNS
HEX_SIDES == 6

single(side) == <<side % HEX_SIDES>>

opposite(side) == <<side % HEX_SIDES, (side + 3) % HEX_SIDES>>

\* variant: the same side twice
adjacentSame(side) == <<side % HEX_SIDES, side % HEX_SIDES>>

adjacent(side) == <<side % HEX_SIDES, (side + 1) % HEX_SIDES>>

\* variant: a half-open pattern with a single open side
oneSide(side) == <<side % HEX_SIDES>>

halfOpen(side) == <<side % HEX_SIDES, (side + 1) % HEX_SIDES, (side + 2) % HEX_SIDES>>

narrow(side) == <<side % HEX_SIDES>>

wide(side) == <<side % HEX_SIDES, (side + 1) % HEX_SIDES, (side + 2) % HEX_SIDES>>

alternating(side) == <<side % HEX_SIDES, (side + 2) % HEX_SIDES, (side + 4) % HEX_SIDES>>

\* ------------------------------------------ AudioManager: analysis data
(* The energy map is kept run-length encoded: a sequence of runs            *)
(* [n |-> samples, e |-> [total, bass]].  Sample k was taken at time        *)
(* k*hopSize/sampleRate, which is k/40 s for every sample rate that is a    *)
(* multiple of 40.  mid and treble are not read by the generator.           *)
RECURSIVE EnergyLength(_)
EnergyLength(map) ==
    IF map = <<>> THEN 0 ELSE Head(map).n + EnergyLength(Tail(map))

RECURSIVE EnergyAtIndex(_, _)
EnergyAtIndex(map, idx) ==
    IF idx < Head(map).n THEN Head(map).e ELSE EnergyAtIndex(Tail(map), idx - Head(map).n)

SampleTime(k) == Dec(k, 40)

getEnergyAt(map, time) ==
    IF EnergyLength(map) = 0 THEN [total |-> 0, bass |-> 0]
    ELSE LET idx == Floor(FDiv(time, Dec(25, 1000)))
         IN  IF idx >= 0 /\ idx < EnergyLength(map)
             THEN EnergyAtIndex(map, idx)
             ELSE EnergyAtIndex(map, EnergyLength(map) - 1)

\* the time of the first sample with total > 0.5, 0 when there is none
RECURSIVE FirstBeatTime(_, _)
FirstBeatTime(map, k) ==
    IF map = <<>> THEN 0
    ELSE IF Head(map).n > 0 /\ Head(map).e.total > Dec(5, 10) THEN SampleTime(k)
    ELSE FirstBeatTime(Tail(map), k + Head(map).n)

\* variant: a grid that also takes the point at the end of the track
RECURSIVE BeatGridInclusive(_, _, _)
BeatGridInclusive(t, interval, dur) ==
    IF t <= dur THEN <<t>> \o BeatGridInclusive(FAdd(t, interval), interval, dur) ELSE <<>>

RECURSIVE BeatGrid(_, _, _)
BeatGrid(t, interval, dur) ==
    IF t < dur THEN <<t>> \o BeatGrid(FAdd(t, interval), interval, dur) ELSE <<>>

detectBeats(map, tempo, dur) ==
    BeatGrid(FirstBeatTime(map, 0), FDiv(N(60), N(tempo)), dur)

\* ------------------------------------- audio analysis: the stages of loadFile
(* A decoded track is given by what the analysis reads from its waveform:  *)
(* raw, the band energies sqrt(mean square) * 4 of its 50 ms windows before *)
(* normalisation, run-length encoded like the energy map, and peaks, the    *)
(* indices of the 10 ms windows _detectBPM finds to be energy peaks.        *)
Bands == {"total", "bass", "mid", "treble"}

Max(a, b) == IF a > b THEN a ELSE b

\* variant: a normalisation that divides by the floor whatever the maximum
floorOnly(map, band) == Dec(1, 1000)

\* Math.max(...this.energyMap.map(e => e[band]), 0.001)
RECURSIVE maxBand(_, _)
maxBand(map, band) ==
    IF map = <<>> THEN Dec(1, 1000)
    ELSE Max(Head(map).e[band], maxBand(Tail(map), band))

\* the most arguments the engine accepts in one call (65536 in
\* JavaScriptCore, about 120000 in V8), scaled to the track lengths modelled
\* here; Math.max(...array, 0.001) throws a RangeError beyond it
ArgumentLimit == 500

spreadThrows(map) == EnergyLength(map) + 1 > ArgumentLimit

\* _analyzeEnergy, the normalisation of the four bands
normalizeEnergy(raw) ==
    [r \in 1..Len(raw) |->
        [n |-> raw[r].n,
         e |-> [band \in Bands |-> FDiv(raw[r].e[band], maxBand(raw, band))]]]

\* _detectBPM: (peaks[i] - peaks[i-1]) * windowSize / sampleRate, where
\* windowSize = floor(sampleRate * 0.01) is sampleRate / 100 at 44.1 and
\* 48 kHz, so that the product is exact and the quotient is the rounded d/100
peakInterval(d) == FDiv(N(d), N(100))

\* the intervals inside (0.25, 2.0), in peak order
RECURSIVE peakIntervals(_)
peakIntervals(peaks) ==
    IF Len(peaks) < 2 THEN <<>>
    ELSE LET interval == peakInterval(peaks[2] - peaks[1])
         IN  (IF interval > Dec(25, 100) /\ interval < N(2) THEN <<interval>> ELSE <<>>)
             \o peakIntervals(Tail(peaks))

\* intervals.sort((a, b) => a - b)
RECURSIVE InsertAscending(_, _)
InsertAscending(sorted, x) ==
    IF sorted = <<>> THEN <<x>>
    ELSE IF x < Head(sorted) THEN <<x>> \o sorted
    ELSE <<Head(sorted)>> \o InsertAscending(Tail(sorted), x)

RECURSIVE sortAscending(_)
sortAscending(seq) ==
    IF seq = <<>> THEN <<>>
    ELSE InsertAscending(sortAscending(SubSeq(seq, 1, Len(seq) - 1)), seq[Len(seq)])

\* variant: the tempo left as 60 / median
rawTempo(bpm) == bpm

\* while (bpm < 80) bpm *= 2; while (bpm > 180) bpm /= 2;
RECURSIVE doubleUp(_)
doubleUp(bpm) == IF bpm < N(80) THEN doubleUp(FMul(bpm, N(2))) ELSE bpm

RECURSIVE halveDown(_)
halveDown(bpm) == IF bpm > N(180) THEN halveDown(FDiv(bpm, N(2))) ELSE bpm

normalizeTempo(bpm) == halveDown(doubleUp(bpm))

\* Math.round of a number that is not negative: floor(x + 0.5), exactly
round(x) == (x + (Unit \div 2)) \div Unit

detectBPM(peaks) ==
    IF Len(peaks) < 2 THEN 120
    ELSE LET intervals == sortAscending(peakIntervals(peaks))
         IN  IF Len(intervals) = 0 THEN 120
             ELSE LET medianInterval == intervals[(Len(intervals) \div 2) + 1]
                  IN  round(normalizeTempo(FDiv(N(60), medianInterval)))

\* _detectMelodyOnsets.  flux[f], f = 0 .. length - 2, is the rise of
\* mid + treble from sample f to sample f + 1, at the time of sample f + 1
MidTreble(map, k) ==
    LET e == EnergyAtIndex(map, k) IN FAdd(e.mid, e.treble)

fluxValue(map, f) ==
    LET df == FSub(MidTreble(map, f + 1), MidTreble(map, f))
    IN  IF df > 0 THEN df ELSE 0

\* localSum += flux[j].value for j = from .. to, in that order
RECURSIVE fluxSum(_, _, _)
fluxSum(map, from, to) ==
    IF to < from THEN 0 ELSE FAdd(fluxSum(map, from, to - 1), fluxValue(map, to))

\* the conditions of an onset at flux index i, but for the cooldown
fluxPeak(map, i) ==
    LET v == fluxValue(map, i)
        localMean == FDiv(fluxSum(map, i - 4, i + 4), N(9))
    IN  /\ v > FMul(localMean, Dec(18, 10))
        /\ v > fluxValue(map, i - 1)
        /\ v > fluxValue(map, i + 1)
        /\ v > Dec(2, 100)

\* the loop over i with its cooldown of 80 ms, run over the indices that
\* pass the other conditions (the only ones at which the loop body acts)
RECURSIVE onsetsFrom(_, _, _)
onsetsFrom(map, peaks, lastOnsetTime) ==
    IF peaks = {} THEN <<>>
    ELSE LET i == CHOOSE x \in peaks : \A y \in peaks : x <= y
             time == SampleTime(i + 1)
             rest == peaks \ {i}
         IN  IF FSub(time, lastOnsetTime) > Dec(8, 100)
             THEN <<[time |-> time, intensity |-> fluxValue(map, i)]>>
                  \o onsetsFrom(map, rest, time)
             ELSE onsetsFrom(map, rest, lastOnsetTime)

RECURSIVE maxIntensity(_)
maxIntensity(onsets) ==
    IF onsets = <<>> THEN Dec(1, 1000)
    ELSE Max(Head(onsets).intensity, maxIntensity(Tail(onsets)))

detectMelodyOnsets(map) ==
    IF EnergyLength(map) < 3 THEN <<>>
    ELSE LET fluxLength == EnergyLength(map) - 1
             peaks == {i \in 4..(fluxLength - 5) : fluxPeak(map, i)}
             onsets == onsetsFrom(map, peaks, N(-1))
         IN  [k \in 1..Len(onsets) |->
                 [time |-> onsets[k].time,
                  intensity |-> FDiv(onsets[k].intensity, maxIntensity(onsets))]]

\* ------------------------------------------------------ LevelGenerator
baseSpeed == N(6)

spawnRadius == N(20)

\* Math.floor(Math.random() * n) for the random number r
randomInt(r, n) == Floor(FMul(r, N(n)))

\* lastGaps = null
NoGaps == <<>>

beatInterval(audio) == FDiv(N(60), N(audio.bpm))

\* variant: a grace period of the travel time at the base speed
graceAtBaseSpeed == FDiv(spawnRadius, baseSpeed)

\* variant: the grace period without its two extra seconds
graceWithoutMargin == FDiv(spawnRadius, FMul(baseSpeed, Dec(7, 10)))

gracePeriod == FAdd(FDiv(spawnRadius, FMul(baseSpeed, Dec(7, 10))), N(2))

minInterval(audio) == FMul(beatInterval(audio), Dec(5, 10))

\* the locals of generate() before the first beat
GenStart(audio) ==
    [events |-> <<>>, lastEventTime |-> -minInterval(audio), spiralDirection |-> 0,
     patternPhase |-> 0, lastGaps |-> NoGaps, nominal |-> <<>>]

\* variant: the per-beat policy without the easy branch of the first five events
choosePatternByEnergy(g, energy, difficulty, rnd) ==
    LET keep == [skip |-> FALSE, spiralDirection |-> g.spiralDirection,
                 patternPhase |-> g.patternPhase]
        nextPhase == (g.patternPhase + 1) % HEX_SIDES
    IN  IF energy.total > Dec(8, 10) /\ difficulty > Dec(3, 10)
        THEN (IF rnd.roll < Dec(3, 10)
              THEN [keep EXCEPT !.spiralDirection = (g.spiralDirection + 1) % HEX_SIDES]
                   @@ [pattern |-> narrow(g.spiralDirection)]
              ELSE IF rnd.roll < Dec(6, 10)
              THEN keep @@ [pattern |-> single(randomInt(rnd.side, HEX_SIDES))]
              ELSE keep @@ [pattern |-> opposite(randomInt(rnd.side, HEX_SIDES))])
             @@ [speed |-> FMul(baseSpeed, FAdd(N(1), FMul(difficulty, Dec(8, 10))))]
        ELSE IF energy.total > Dec(5, 10)
        THEN [keep EXCEPT !.patternPhase = nextPhase]
             @@ [pattern |-> IF rnd.roll < Dec(4, 10) THEN opposite(g.patternPhase)
                             ELSE IF rnd.roll < Dec(7, 10) THEN adjacent(g.patternPhase)
                             ELSE single(g.patternPhase),
                 speed |-> FMul(baseSpeed, FAdd(N(1), FMul(difficulty, Dec(5, 10))))]
        ELSE IF energy.total > Dec(2, 10)
        THEN keep
             @@ [pattern |-> IF rnd.roll < Dec(5, 10)
                             THEN halfOpen(randomInt(rnd.side, HEX_SIDES))
                             ELSE wide(randomInt(rnd.side, HEX_SIDES)),
                 speed |-> FMul(baseSpeed, FAdd(Dec(8, 10), FMul(difficulty, Dec(3, 10))))]
        ELSE IF rnd.roll < Dec(5, 10)
        THEN [keep EXCEPT !.skip = TRUE] @@ [pattern |-> <<>>, speed |-> 0]
        ELSE keep
             @@ [pattern |-> alternating(randomInt(rnd.side, HEX_SIDES)),
                 speed |-> FMul(baseSpeed, Dec(7, 10))]

\* variant: the hard branch taken on the energy alone, whatever the difficulty
choosePatternHardFirst(g, energy, difficulty, rnd) ==
    IF Len(g.events) < 5
    THEN [skip |-> FALSE, spiralDirection |-> g.spiralDirection,
          patternPhase |-> (g.patternPhase + 1) % HEX_SIDES,
          pattern |-> halfOpen(g.patternPhase), speed |-> FMul(baseSpeed, Dec(8, 10))]
    ELSE IF energy.total > Dec(8, 10)
    THEN [choosePatternByEnergy(g, energy, N(1), rnd) EXCEPT
             !.speed = FMul(baseSpeed, FAdd(N(1), FMul(difficulty, Dec(8, 10))))]
    ELSE choosePatternByEnergy(g, energy, difficulty, rnd)

\* the branch of one beat: the nominal pattern, the speed and the phases,
\* or skip.  rnd holds the values Math.random() returns in this iteration:
\* roll (the branch roll), side (the random side), pick (the fix-up).
choosePattern(g, energy, difficulty, rnd) ==
    LET keep == [skip |-> FALSE, spiralDirection |-> g.spiralDirection,
                 patternPhase |-> g.patternPhase]
        nextPhase == (g.patternPhase + 1) % HEX_SIDES
    IN  IF Len(g.events) < 5
        THEN [keep EXCEPT !.patternPhase = nextPhase]
             @@ [pattern |-> halfOpen(g.patternPhase), speed |-> FMul(baseSpeed, Dec(8, 10))]
        ELSE IF energy.total > Dec(8, 10) /\ difficulty > Dec(3, 10)
        THEN (IF rnd.roll < Dec(3, 10)
              THEN [keep EXCEPT !.spiralDirection = (g.spiralDirection + 1) % HEX_SIDES]
                   @@ [pattern |-> narrow(g.spiralDirection)]
              ELSE IF rnd.roll < Dec(6, 10)
              THEN keep @@ [pattern |-> single(randomInt(rnd.side, HEX_SIDES))]
              ELSE keep @@ [pattern |-> opposite(randomInt(rnd.side, HEX_SIDES))])
             @@ [speed |-> FMul(baseSpeed, FAdd(N(1), FMul(difficulty, Dec(8, 10))))]
        ELSE IF energy.total > Dec(5, 10)
        THEN [keep EXCEPT !.patternPhase = nextPhase]
             @@ [pattern |-> IF rnd.roll < Dec(4, 10) THEN opposite(g.patternPhase)
                             ELSE IF rnd.roll < Dec(7, 10) THEN adjacent(g.patternPhase)
                             ELSE single(g.patternPhase),
                 speed |-> FMul(baseSpeed, FAdd(N(1), FMul(difficulty, Dec(5, 10))))]
        ELSE IF energy.total > Dec(2, 10)
        THEN keep
             @@ [pattern |-> IF rnd.roll < Dec(5, 10)
                             THEN halfOpen(randomInt(rnd.side, HEX_SIDES))
                             ELSE wide(randomInt(rnd.side, HEX_SIDES)),
                 speed |-> FMul(baseSpeed, FAdd(Dec(8, 10), FMul(difficulty, Dec(3, 10))))]
        ELSE IF rnd.roll < Dec(5, 10)
        THEN [keep EXCEPT !.skip = TRUE] @@ [pattern |-> <<>>, speed |-> 0]
        ELSE keep
             @@ [pattern |-> alternating(randomInt(rnd.side, HEX_SIDES)),
                 speed |-> FMul(baseSpeed, Dec(7, 10))]

\* "ensure consecutive patterns share at least one gap"
shareGap(pattern, lastGaps, pick) ==
    IF lastGaps # NoGaps /\ Filter(pattern, Items(lastGaps)) = <<>>
    THEN LET sharedGap == lastGaps[randomInt(pick, Len(lastGaps)) + 1]
         IN  IF ~Includes(pattern, sharedGap) THEN Append(pattern, sharedGap) ELSE pattern
    ELSE pattern

\* one iteration of "for (const beatTime of audioManager.beatTimes)"
beatStep(g, audio, beatTime, rnd) ==
    IF beatTime < gracePeriod THEN g
    ELSE IF FSub(beatTime, g.lastEventTime) < FMul(minInterval(audio), Dec(8, 10)) THEN g
    ELSE LET energy == getEnergyAt(audio.energyMap, beatTime)
             difficulty == Min(FDiv(beatTime, audio.duration), N(1))
             c == choosePattern(g, energy, difficulty, rnd)
             pattern == shareGap(c.pattern, g.lastGaps, rnd.pick)
             speed == IF energy.bass > Dec(7, 10) THEN FMul(c.speed, Dec(12, 10)) ELSE c.speed
             travelTime == FDiv(spawnRadius, speed)
         IN  IF c.skip THEN g
             ELSE [events |-> Append(g.events,
                                 [time |-> beatTime,
                                  spawnTime |-> FSub(beatTime, travelTime),
                                  gaps |-> pattern,
                                  speed |-> speed,
                                  thickness |-> FAdd(Dec(3, 10), FMul(difficulty, Dec(3, 10)))]),
                   lastEventTime |-> beatTime,
                   spiralDirection |-> c.spiralDirection,
                   patternPhase |-> c.patternPhase,
                   lastGaps |-> pattern,
                   nominal |-> Append(g.nominal, c.pattern)]

\* events.sort((a, b) => a.spawnTime - b.spawnTime), a stable sort
RECURSIVE InsertBySpawnTime(_, _)
InsertBySpawnTime(sorted, ev) ==
    IF sorted = <<>> THEN <<ev>>
    ELSE IF FSub(ev.spawnTime, Head(sorted).spawnTime) < 0
    THEN <<ev>> \o sorted
    ELSE <<Head(sorted)>> \o InsertBySpawnTime(Tail(sorted), ev)

RECURSIVE SortFrom(_, _)
SortFrom(sorted, rest) ==
    IF rest = <<>> THEN sorted
    ELSE SortFrom(InsertBySpawnTime(sorted, Head(rest)), Tail(rest))

sortBySpawnTime(evs) == SortFrom(<<>>, evs)

\* variant: the sub-beat's travel time divided by the preceding event's speed
\* instead of its own
subBeatParentTravel(evs, audio, i) ==
    LET event == evs[i]
        nextEvent == evs[i + 1]
        gap == FSub(nextEvent.time, event.time)
        mid == FAdd(event.time, FDiv(gap, N(2)))
        speed == FMul(event.speed, Dec(9, 10))
        travelTime == FDiv(spawnRadius, event.speed)
    IN  IF gap > FMul(beatInterval(audio), Dec(15, 10))
           /\ getEnergyAt(audio.energyMap, mid).total > Dec(6, 10)
        THEN <<[time |-> mid,
                spawnTime |-> FSub(mid, travelTime),
                gaps |-> opposite(event.gaps[1]),
                speed |-> speed,
                thickness |-> Dec(3, 10)]>>
        ELSE <<>>

\* variant: a sub-beat in every long gap, whatever the energy at its midpoint
subBeatOnGapOnly(evs, audio, i) ==
    LET event == evs[i]
        nextEvent == evs[i + 1]
        gap == FSub(nextEvent.time, event.time)
        mid == FAdd(event.time, FDiv(gap, N(2)))
        speed == FMul(event.speed, Dec(9, 10))
        travelTime == FDiv(spawnRadius, speed)
    IN  IF gap > FMul(beatInterval(audio), Dec(15, 10))
        THEN <<[time |-> mid,
                spawnTime |-> FSub(mid, travelTime),
                gaps |-> opposite(event.gaps[1]),
                speed |-> speed,
                thickness |-> Dec(3, 10)]>>
        ELSE <<>>

\* the sub-beat event between events[i] and events[i+1], <<>> when none
subBeatAt(evs, audio, i) ==
    LET event == evs[i]
        nextEvent == evs[i + 1]
        gap == FSub(nextEvent.time, event.time)
        mid == FAdd(event.time, FDiv(gap, N(2)))
        speed == FMul(event.speed, Dec(9, 10))
        travelTime == FDiv(spawnRadius, speed)
    IN  IF gap > FMul(beatInterval(audio), Dec(15, 10))
           /\ getEnergyAt(audio.energyMap, mid).total > Dec(6, 10)
        THEN <<[time |-> mid,
                spawnTime |-> FSub(mid, travelTime),
                gaps |-> opposite(event.gaps[1]),
                speed |-> speed,
                thickness |-> Dec(3, 10)]>>
        ELSE <<>>

RECURSIVE subEvents(_, _, _)
subEvents(evs, audio, i) ==
    IF i >= Len(evs) THEN <<>>
    ELSE subBeatAt(evs, audio, i) \o subEvents(evs, audio, i + 1)

addSubBeatPatterns(evs, audio) ==
    sortBySpawnTime(evs \o subEvents(evs, audio, 1))

\* the end of generate(): sub-beat patterns, then the final sort
generateEnd(evs, audio) == sortBySpawnTime(addSubBeatPatterns(evs, audio))

\* the walk over beatTimes from beat i on, every iteration drawing rnd
RECURSIVE beatPass(_, _, _, _)
beatPass(g, audio, i, rnd) ==
    IF i > Len(audio.beatTimes) THEN g
    ELSE beatPass(beatStep(g, audio, audio.beatTimes[i], rnd), audio, i + 1, rnd)

\* generate(audioManager) as a whole
generate(audio, rnd) == generateEnd(beatPass(GenStart(audio), audio, 1, rnd).events, audio)

\* the scheduler: the number of events getEventsForTime(audioTime) takes
RECURSIVE dueCount(_, _, _)
dueCount(evs, index, audioTime) ==
    IF index < Len(evs) /\ evs[index + 1].spawnTime <= audioTime
    THEN 1 + dueCount(evs, index + 1, audioTime)
    ELSE 0


\* ------------------------------------------------------------- the state
VARIABLES
    audio,              \* AudioManager: bpm, duration, energyMap, beatTimes
    events,             \* LevelGenerator.events
    currentEventIndex,  \* LevelGenerator.currentEventIndex
    pc,                 \* where generate() is: "idle", "loaded", "beats", "done"
    loop,               \* the locals of generate() while it walks the beats
    toSpawn,            \* the last result of getEventsForTime, as indices into events
    queries,            \* history: the audioTime of each call since the last reset
    batches,            \* history: the result of each call since the last reset
    prevQueries,        \* history: queries of the run before the last reset
    prevBatches,        \* history: batches of the run before the last reset
    state,              \* Game.state: "MENU", "ANALYZING", "PLAYING", "GAME_OVER"
    isTransitioning,    \* Game.isTransitioning
    deathAudioTime,     \* Game._deathAudioTime, Undefined until the first death
    screen,             \* the screen the UI shows: "menu", "loading", "hud", "gameover"
    loading,            \* the track loadFile is decoding, NoTrack when none
    timers,             \* the pending setTimeout callbacks, in the order they run
    walls,              \* WallSystem.walls: the pattern and radius of each wall ring
    isPlaying,          \* AudioManager.isPlaying
    startTime,          \* AudioManager.startTime
    pauseOffset,        \* AudioManager.pauseOffset
    source,             \* AudioManager.source: 0 null, 1 a started buffer source
                        \* node, 2 a node that has played to its end
    ctxTime,            \* AudioContext.currentTime
    endedPending,       \* stopped source nodes whose "ended" event is still to come
    started,            \* history: how PLAYING was last entered
    overBy,             \* history: "death" or "complete", what ended the last run
    stage,              \* where loadFile is: "idle", "init", "arrayBuffer", "decode",
                        \* "energy", "bpm", "melody", "grid", "resolved", "failed"
    progress,           \* history: the percentages onProgress got from this loadFile
    lastGood            \* history: audio and events as the last successful load left them

audioVars == <<audio>>

genVars == <<events, pc, loop>>

schedVars == <<currentEventIndex, toSpawn, queries, batches, prevQueries, prevBatches>>

playVars == <<isPlaying, startTime, pauseOffset, source, ctxTime, endedPending>>

loadVars == <<stage, progress, lastGood>>

gameVars == <<state, isTransitioning, deathAudioTime, screen, loading, timers, walls,
              isPlaying, startTime, pauseOffset, source, ctxTime, endedPending,
              started, overBy, stage, progress, lastGood>>

vars == <<audio, events, currentEventIndex, pc, loop, toSpawn, queries, batches,
          prevQueries, prevBatches, state, isTransitioning, deathAudioTime, screen,
          loading, timers, walls, isPlaying, startTime, pauseOffset, source, ctxTime,
          endedPending, started, overBy, stage, progress, lastGood>>

\* --------------------------------------------------------------- inputs
VeryLow == [total |-> Dec(1, 10), bass |-> Dec(1, 10)]

Low == [total |-> Dec(3, 10), bass |-> Dec(3, 10)]

Medium == [total |-> Dec(7, 10), bass |-> Dec(3, 10)]

\* normalisation makes the loudest sample 1
High == [total |-> N(1), bass |-> N(1)]

(* A 16.5 s song: 12.55 s of near silence, then a loud part that carries    *)
(* the first five beats; e6, e7 and e8 are the energies around the sixth,   *)
(* seventh and eighth beat.                                                 *)
LateSong(tempo, e6, e7, e8) ==
    [bpm |-> tempo, duration |-> Dec(165, 10),
     energyMap |-> <<[n |-> 502, e |-> VeryLow], [n |-> 90, e |-> High],
                     [n |-> 20, e |-> e6], [n |-> 10, e |-> High],
                     [n |-> 1, e |-> e7], [n |-> 35, e |-> e8]>>]

\* a 9.2 s song that is loud from 6.55 s on: its first beat is in the grace period
EarlySong ==
    [bpm |-> 120, duration |-> Dec(92, 10),
     energyMap |-> <<[n |-> 262, e |-> VeryLow], [n |-> 104, e |-> High]>>]

\* a 9.5 s song that is loud from 7.475 s on: its fifth and last beat,
\* 9.475 s, is in the last half second of the track
LastBeatSong ==
    [bpm |-> 120, duration |-> Dec(95, 10),
     energyMap |-> <<[n |-> 299, e |-> VeryLow], [n |-> 81, e |-> High]>>]

\* like EarlySong, with the first five emitted beats on high, medium and very
\* low energy: 7.05 s high, 7.55 s medium, 8.05 s and later very low
MixedSong ==
    [bpm |-> 120, duration |-> Dec(92, 10),
     energyMap |-> <<[n |-> 262, e |-> VeryLow], [n |-> 30, e |-> High],
                     [n |-> 20, e |-> Medium], [n |-> 54, e |-> VeryLow]>>]

\* loud in total, without much bass
Bright == [total |-> Dec(9, 10), bass |-> Dec(3, 10)]

(* A 37 s song at 80 bpm, loud from 6.55 s on.  Its first five events are  *)
(* on the beats 7.3 s to 10.3 s; the beat at 11.05 s is loud before three   *)
(* tenths of the song, the beat at 11.8 s loud without bass after them.     *)
LongSongEarlyLoud ==
    [bpm |-> 80, duration |-> N(37),
     energyMap |-> <<[n |-> 262, e |-> VeryLow], [n |-> 200, e |-> High],
                     [n |-> 20, e |-> Bright], [n |-> 998, e |-> VeryLow]>>]

Tracks ==
    {LateSong(119, e6, e7, e8) :
        e6 \in {VeryLow, Low, Medium, High}, e7 \in {VeryLow, Medium},
        e8 \in {VeryLow, High}}
    \cup {LateSong(120, High, VeryLow, High), EarlySong, MixedSong, LongSongEarlyLoud}

\* a silent 5 s song: every beat is in the grace period
SilentSong ==
    [bpm |-> 120, duration |-> N(5), energyMap |-> <<[n |-> 198, e |-> [total |-> 0, bass |-> 0]]>>]

SchedTracks == {EarlySong, SilentSong, LateSong(119, High, VeryLow, High)}

\* the values Math.random() takes
Rolls == {Dec(1, 10), Dec(45, 100), Dec(9, 10)}

Rnd == [roll : Rolls, side : Rolls, pick : Rolls]

GenTimes == {N(14), N(17)}

\* Math.random() returning the same value in every call of one generate()
SchedRnd == {rnd \in Rnd : rnd.side = rnd.roll /\ rnd.pick = rnd.roll}

QueryTimes == {N(11), N(14), N(17)}

\* ------------------------------------------------------------ the actions
NoLocals == [beat |-> 0]

Analysed(track) ==
    [bpm |-> track.bpm, duration |-> track.duration, energyMap |-> track.energyMap,
     beatTimes |-> detectBeats(track.energyMap, track.bpm, track.duration)]

NewScheduler ==
    /\ currentEventIndex = 0
    /\ toSpawn = <<>>
    /\ queries = <<>>
    /\ batches = <<>>
    /\ prevQueries = <<>>
    /\ prevBatches = <<>>

\* _deathAudioTime before the first death
Undefined == -1

NoTrack == [bpm |-> 0]

NotStarted == [by |-> "none", at |-> Undefined, cursor |-> 0, queried |-> FALSE]

NewGame ==
    /\ state = "MENU"
    /\ isTransitioning = FALSE
    /\ deathAudioTime = Undefined
    /\ screen = "menu"
    /\ loading = NoTrack
    /\ timers = <<>>
    /\ walls = <<>>
    /\ isPlaying = FALSE
    /\ startTime = 0
    /\ pauseOffset = 0
    /\ source = 0
    /\ ctxTime = 0
    /\ endedPending = 0
    /\ started = NotStarted
    /\ overBy = "none"
    /\ stage = "idle"
    /\ progress = <<>>

\* the state after the constructors of AudioManager, LevelGenerator and Game
InitGen ==
    /\ audio = [bpm |-> 120, duration |-> 0, energyMap |-> <<>>, beatTimes |-> <<>>]
    /\ events = <<>>
    /\ pc = "idle"
    /\ loop = NoLocals
    /\ NewScheduler
    /\ NewGame
    /\ lastGood = [audio |-> audio, events |-> <<>>]

\* AudioManager.loadFile: the analysis of the decoded track
LoadFile(track) ==
    /\ pc = "idle"
    /\ audio' = Analysed(track)
    /\ pc' = "loaded"
    /\ UNCHANGED <<events, loop>>
    /\ UNCHANGED schedVars
    /\ UNCHANGED gameVars

\* generate(), up to the first beat
GenerateStart ==
    /\ pc = "loaded"
    /\ events' = <<>>
    /\ currentEventIndex' = 0
    /\ loop' = [f \in {"beat", "lastEventTime", "spiralDirection", "patternPhase",
                       "lastGaps", "nominal"} |->
                   IF f = "beat" THEN 1 ELSE GenStart(audio)[f]]
    /\ pc' = "beats"
    /\ UNCHANGED <<audio, toSpawn, queries, batches, prevQueries, prevBatches>>
    /\ UNCHANGED gameVars

\* generate(), one beat of the walk
GenerateBeat ==
    /\ pc = "beats"
    /\ loop.beat <= Len(audio.beatTimes)
    /\ loop.beat <= MaxBeats
    /\ \E rnd \in Rnd :
          LET g == beatStep(loop @@ [events |-> events], audio,
                            audio.beatTimes[loop.beat], rnd)
          IN  /\ events' = g.events
              /\ loop' = [f \in DOMAIN loop |->
                             IF f = "beat" THEN loop.beat + 1 ELSE g[f]]
    /\ UNCHANGED <<audio, pc>>
    /\ UNCHANGED schedVars
    /\ UNCHANGED gameVars

\* generate(), after the last beat
GenerateEnd ==
    /\ pc = "beats"
    /\ loop.beat > Len(audio.beatTimes)
    /\ events' = generateEnd(events, audio)
    /\ loop' = NoLocals
    /\ pc' = "done"
    /\ UNCHANGED audio
    /\ UNCHANGED schedVars
    /\ UNCHANGED gameVars

\* variants: a scheduler that scans from the start of the list, a reset
\* that leaves the cursor where it is
GetEventsFromStart(audioTime) ==
    /\ pc = "done"
    /\ LET n == dueCount(events, 0, audioTime)
       IN  /\ toSpawn' = [k \in 1..n |-> k]
           /\ currentEventIndex' = n
    /\ queries' = Append(queries, audioTime)
    /\ batches' = Append(batches, toSpawn')
    /\ UNCHANGED <<audio, events, pc, loop, prevQueries, prevBatches>>

ResetKeepCursor ==
    /\ pc = "done"
    /\ prevQueries' = queries
    /\ prevBatches' = batches
    /\ queries' = <<>>
    /\ batches' = <<>>
    /\ UNCHANGED <<audio, events, pc, loop, currentEventIndex, toSpawn>>

\* LevelGenerator.getEventsForTime(audioTime)
GetEventsForTime(audioTime) ==
    /\ pc = "done"
    /\ LET n == dueCount(events, currentEventIndex, audioTime)
       IN  /\ toSpawn' = [k \in 1..n |-> currentEventIndex + k]
           /\ currentEventIndex' = currentEventIndex + n
    /\ queries' = Append(queries, audioTime)
    /\ batches' = Append(batches, toSpawn')
    /\ UNCHANGED <<audio, events, pc, loop, prevQueries, prevBatches>>

GenQuery ==
    /\ Len(queries) < GenQueries
    /\ \E t \in GenTimes : GetEventsForTime(t)
    /\ UNCHANGED gameVars

NextGen ==
    \/ \E track \in Tracks : LoadFile(track)
    \/ GenerateStart
    \/ GenerateBeat
    \/ GenerateEnd
    \/ GenQuery

SpecGen == InitGen /\ [][NextGen]_vars


\* LevelGenerator.reset()
Reset ==
    /\ pc = "done"
    /\ currentEventIndex' = 0
    /\ prevQueries' = queries
    /\ prevBatches' = batches
    /\ queries' = <<>>
    /\ batches' = <<>>
    /\ UNCHANGED <<audio, events, pc, loop, toSpawn>>

\* loadFile and generate() in one step; the histories start again
LoadAndGenerate(track, rnd) ==
    /\ audio' = Analysed(track)
    /\ events' = generate(audio', rnd)
    /\ currentEventIndex' = 0
    /\ pc' = "done"
    /\ queries' = <<>>
    /\ batches' = <<>>
    /\ prevQueries' = <<>>
    /\ prevBatches' = <<>>
    /\ UNCHANGED <<loop, toSpawn>>

SchedLoad ==
    /\ pc = "idle"
    /\ \E track \in SchedTracks, rnd \in SchedRnd : LoadAndGenerate(track, rnd)
    /\ UNCHANGED gameVars

Query ==
    /\ Len(queries) < MaxQueries
    /\ \E t \in QueryTimes : GetEventsForTime(t)
    /\ UNCHANGED gameVars

SchedReset == Reset /\ UNCHANGED gameVars

NextSched ==
    \/ SchedLoad
    \/ Query
    \/ SchedReset

SpecSched == InitGen /\ [][NextSched]_vars

\* ------------------------------------------------- AudioManager: playback
\* the playback fields as one record, so that calls can follow one another
Playback ==
    [isPlaying |-> isPlaying, startTime |-> startTime, pauseOffset |-> pauseOffset,
     source |-> source, endedPending |-> endedPending]

SetPlayback(a) ==
    /\ isPlaying' = a.isPlaying
    /\ startTime' = a.startTime
    /\ pauseOffset' = a.pauseOffset
    /\ source' = a.source
    /\ endedPending' = a.endedPending

\* stop(): the stopped node will still deliver its "ended" event, unless it
\* has played to its end and delivered it already
stop(a) ==
    [a EXCEPT !.source = 0,
              !.endedPending = @ + (IF a.source = 1 THEN 1 ELSE 0),
              !.isPlaying = FALSE,
              !.pauseOffset = 0,
              !.startTime = 0]

\* play(): the buffer is there whenever the game calls it
play(a, now) ==
    IF a.isPlaying THEN a
    ELSE [a EXCEPT !.source = 1, !.startTime = FSub(now, a.pauseOffset), !.isPlaying = TRUE]

restart(a, now) == play([stop(a) EXCEPT !.pauseOffset = 0], now)

\* get currentTime(), when the AudioContext clock shows now
currentTime(a, now) == IF ~a.isPlaying THEN a.pauseOffset ELSE FSub(now, a.startTime)

\* source.onended of a node that was stopped
SourceEnded ==
    /\ endedPending > 0
    /\ isPlaying' = FALSE
    /\ endedPending' = endedPending - 1
    /\ UNCHANGED <<audio, startTime, pauseOffset, source, ctxTime>>
    /\ UNCHANGED genVars
    /\ UNCHANGED schedVars
    /\ UNCHANGED <<state, isTransitioning, deathAudioTime, screen, loading, timers, walls,
                   started, overBy>>
    /\ UNCHANGED loadVars

(* source.onended of the node that plays, when it reaches the end of the    *)
(* buffer: no frame has run in the last half second of the track (the page  *)
(* is hidden, requestAnimationFrame is paused and the audio goes on).       *)
SourceEndsNaturally ==
    /\ source = 1
    /\ FAdd(startTime, audio.duration) <= N(MaxClock)
    /\ ctxTime' = Max(ctxTime, FAdd(startTime, audio.duration))
    /\ isPlaying' = FALSE
    /\ source' = 2
    /\ UNCHANGED <<audio, startTime, pauseOffset, endedPending>>
    /\ UNCHANGED genVars
    /\ UNCHANGED schedVars
    /\ UNCHANGED <<state, isTransitioning, deathAudioTime, screen, loading, timers, walls,
                   started, overBy>>
    /\ UNCHANGED loadVars

\* ---------------------------------------------------------------- Game
\* the time between two frames of the model
Step == Dec(15, 10)

despawnRadius == Dec(12, 10)

GameTracks == {EarlySong, LastBeatSong}

\* variant: an _onFileSelected that sets the timer of _startGame before it
\* awaits loadFile
OnFileSelectedStartsTimer(track) ==
    /\ screen = "menu"
    /\ state' = "ANALYZING"
    /\ screen' = "loading"
    /\ loading' = track
    /\ stage' = "init"
    /\ progress' = <<>>
    /\ timers' = Append(timers, "startGame")
    /\ UNCHANGED audio
    /\ UNCHANGED genVars
    /\ UNCHANGED schedVars
    /\ UNCHANGED playVars
    /\ UNCHANGED <<isTransitioning, deathAudioTime, walls, started, overBy, lastGood>>

\* _onFileSelected, up to "await this.audio.loadFile"
OnFileSelected(track) ==
    /\ screen = "menu"
    /\ state' = "ANALYZING"
    /\ screen' = "loading"
    /\ loading' = track
    /\ stage' = "init"
    /\ progress' = <<>>
    /\ UNCHANGED audio
    /\ UNCHANGED genVars
    /\ UNCHANGED schedVars
    /\ UNCHANGED playVars
    /\ UNCHANGED <<isTransitioning, deathAudioTime, timers, walls, started, overBy, lastGood>>

\* _onFileSelected, after loadFile has resolved
FileLoaded ==
    /\ loading # NoTrack
    /\ \E rnd \in SchedRnd : LoadAndGenerate(loading, rnd)
    /\ loading' = NoTrack
    /\ timers' = Append(timers, "startGame")
    /\ stage' = "idle"
    /\ progress' = <<10, 30, 50, 70, 85, 90, 100>>
    /\ lastGood' = [audio |-> audio', events |-> events']
    /\ UNCHANGED playVars
    /\ UNCHANGED <<state, isTransitioning, deathAudioTime, screen, walls, started, overBy>>

\* _onFileSelected, after loadFile has thrown (decodeAudioData rejected)
FileFails ==
    /\ loading # NoTrack
    /\ loading' = NoTrack
    /\ timers' = Append(timers, "toMenu")
    /\ stage' = "idle"
    /\ progress' = <<10, 30>>
    /\ UNCHANGED lastGood
    /\ UNCHANGED audio
    /\ UNCHANGED genVars
    /\ UNCHANGED schedVars
    /\ UNCHANGED playVars
    /\ UNCHANGED <<state, isTransitioning, deathAudioTime, screen, walls, started, overBy>>

\* _startGame(), all of it but the timer queue
StartGame ==
    /\ state' = "PLAYING"
    /\ walls' = <<>>
    /\ Reset
    /\ SetPlayback(restart(Playback, ctxTime))
    /\ screen' = "hud"
    /\ started' = [by |-> "start", at |-> 0, cursor |-> currentEventIndex',
                   queried |-> FALSE]
    /\ UNCHANGED <<isTransitioning, deathAudioTime, loading, ctxTime, overBy>>
    /\ UNCHANGED loadVars

\* variant: a continue that rewinds the scheduler
OnContinueReset ==
    /\ state = "GAME_OVER"
    /\ ~isTransitioning
    /\ state' = "PLAYING"
    /\ walls' = <<>>
    /\ Reset
    /\ LET a == play([Playback EXCEPT !.pauseOffset =
                         IF deathAudioTime = Undefined THEN 0 ELSE deathAudioTime], ctxTime)
       IN  /\ SetPlayback(a)
           /\ started' = [by |-> "continue", at |-> currentTime(a, ctxTime),
                          cursor |-> currentEventIndex, queried |-> FALSE]
    /\ screen' = "hud"
    /\ UNCHANGED <<isTransitioning, deathAudioTime, loading, ctxTime, timers, overBy>>
    /\ UNCHANGED loadVars

\* variant: a continue that does not look at isTransitioning
OnContinueUnguarded ==
    /\ state = "GAME_OVER"
    /\ state' = "PLAYING"
    /\ walls' = <<>>
    /\ LET a == play([Playback EXCEPT !.pauseOffset =
                         IF deathAudioTime = Undefined THEN 0 ELSE deathAudioTime], ctxTime)
       IN  /\ SetPlayback(a)
           /\ started' = [by |-> "continue", at |-> currentTime(a, ctxTime),
                          cursor |-> currentEventIndex, queried |-> FALSE]
    /\ screen' = "hud"
    /\ UNCHANGED audio
    /\ UNCHANGED genVars
    /\ UNCHANGED schedVars
    /\ UNCHANGED <<isTransitioning, deathAudioTime, loading, ctxTime, timers, overBy>>
    /\ UNCHANGED loadVars

\* _onContinue()
OnContinue ==
    /\ state = "GAME_OVER"
    /\ ~isTransitioning
    /\ state' = "PLAYING"
    /\ walls' = <<>>
    /\ LET a == play([Playback EXCEPT !.pauseOffset =
                         IF deathAudioTime = Undefined THEN 0 ELSE deathAudioTime], ctxTime)
       IN  /\ SetPlayback(a)
           /\ started' = [by |-> "continue", at |-> currentTime(a, ctxTime),
                          cursor |-> currentEventIndex, queried |-> FALSE]
    /\ screen' = "hud"
    /\ UNCHANGED audio
    /\ UNCHANGED genVars
    /\ UNCHANGED schedVars
    /\ UNCHANGED <<isTransitioning, deathAudioTime, loading, ctxTime, timers, overBy>>
    /\ UNCHANGED loadVars

\* _onNewSong()
OnNewSong ==
    /\ state' = "MENU"
    /\ SetPlayback(stop(Playback))
    /\ walls' = <<>>
    /\ screen' = "menu"
    /\ UNCHANGED audio
    /\ UNCHANGED genVars
    /\ UNCHANGED schedVars
    /\ UNCHANGED <<isTransitioning, deathAudioTime, loading, ctxTime, timers, started, overBy>>
    /\ UNCHANGED loadVars

\* the buttons of the game-over screen, and the W key
ClickRetry == screen = "gameover" /\ StartGame /\ UNCHANGED timers

ClickContinue == screen = "gameover" /\ OnContinue

ClickNewSong == screen = "gameover" /\ OnNewSong

PressW == state = "GAME_OVER" /\ OnContinue

\* setTimeout(() => this._startGame(), 500)
TimerStartGame ==
    /\ timers # <<>>
    /\ Head(timers) = "startGame"
    /\ timers' = Tail(timers)
    /\ StartGame

\* the timer of the catch branch of _onFileSelected
TimerToMenu ==
    /\ timers # <<>>
    /\ Head(timers) = "toMenu"
    /\ timers' = Tail(timers)
    /\ screen' = "menu"
    /\ state' = "MENU"
    /\ UNCHANGED audio
    /\ UNCHANGED genVars
    /\ UNCHANGED schedVars
    /\ UNCHANGED playVars
    /\ UNCHANGED <<isTransitioning, deathAudioTime, loading, walls, started, overBy>>
    /\ UNCHANGED loadVars

\* the timer of fadeOut: "if (this.isPlaying) this.stop()"
TimerFadeStop ==
    /\ timers # <<>>
    /\ Head(timers) = "fadeStop"
    /\ timers' = Tail(timers)
    /\ SetPlayback(IF isPlaying THEN stop(Playback) ELSE Playback)
    /\ UNCHANGED audio
    /\ UNCHANGED genVars
    /\ UNCHANGED schedVars
    /\ UNCHANGED <<state, isTransitioning, deathAudioTime, screen, loading, walls, ctxTime,
                   started, overBy>>
    /\ UNCHANGED loadVars

\* the pending timers that call showGameOver
ShowTimers(ts) == SelectSeq(ts, LAMBDA t : t \in {"showGameOver", "showVictory"})

\* variant: the timer of _onGameOver runs before the timer of fadeOut
TimerShowGameOverFirst ==
    /\ ShowTimers(timers) # <<>>
    /\ timers' = SelectSeq(timers, LAMBDA t : t \notin {"showGameOver", "showVictory"})
    /\ isTransitioning' = FALSE
    /\ screen' = "gameover"
    /\ UNCHANGED audio
    /\ UNCHANGED genVars
    /\ UNCHANGED schedVars
    /\ UNCHANGED playVars
    /\ UNCHANGED <<state, deathAudioTime, loading, walls, started, overBy>>
    /\ UNCHANGED loadVars

\* the timers of _onGameOver and of _onSongComplete: showGameOver
TimerShowGameOver ==
    /\ timers # <<>>
    /\ Head(timers) \in {"showGameOver", "showVictory"}
    /\ timers' = Tail(timers)
    /\ isTransitioning' = FALSE
    /\ screen' = "gameover"
    /\ UNCHANGED audio
    /\ UNCHANGED genVars
    /\ UNCHANGED schedVars
    /\ UNCHANGED playVars
    /\ UNCHANGED <<state, deathAudioTime, loading, walls, started, overBy>>
    /\ UNCHANGED loadVars

\* walls.update(dt) after the spawnPattern calls of one frame
RECURSIVE movedWalls(_, _, _)
movedWalls(ws, evs, dt) ==
    IF ws = <<>> THEN <<>>
    ELSE LET radius == FSub(Head(ws).radius, FMul(evs[Head(ws).ev].speed, dt))
         IN  (IF radius < despawnRadius THEN <<>>
              ELSE <<[ev |-> Head(ws).ev, radius |-> radius]>>)
             \o movedWalls(Tail(ws), evs, dt)

(* One frame: _update(dt) in state PLAYING, Step after the frame before.    *)
(* hit is the result of walls.checkCollisions(player): the player's angle   *)
(* is the user's, so any wall on the field can be the one that is hit.      *)
Frame ==
    /\ state = "PLAYING"
    /\ endedPending = 0
    /\ ctxTime < N(MaxClock)
    /\ ctxTime' = FAdd(ctxTime, Step)
    /\ LET currentAudioTime == currentTime(Playback, ctxTime')
       IN  /\ GetEventsForTime(currentAudioTime)
           /\ walls' = movedWalls(walls \o [k \in 1..Len(toSpawn') |->
                                               [ev |-> toSpawn'[k], radius |-> spawnRadius]],
                                  events, Step)
           /\ \E hit \in BOOLEAN :
                 /\ hit => walls' # <<>>
                 /\ LET dead == hit /\ ~isTransitioning
                        complete == /\ ~dead
                                    /\ ~isTransitioning
                                    /\ currentAudioTime >= FSub(audio.duration, Dec(5, 10))
                    IN  /\ state' = IF dead \/ complete THEN "GAME_OVER" ELSE state
                        /\ isTransitioning' = (isTransitioning \/ dead \/ complete)
                        /\ deathAudioTime' = IF dead THEN currentAudioTime ELSE deathAudioTime
                        /\ timers' = IF dead
                                     THEN timers \o (IF isPlaying THEN <<"fadeStop">> ELSE <<>>)
                                                 \o <<"showGameOver">>
                                     ELSE IF complete THEN Append(timers, "showVictory")
                                     ELSE timers
                        /\ overBy' = IF dead THEN "death"
                                     ELSE IF complete THEN "complete" ELSE overBy
                        /\ \/ /\ complete
                              /\ isPlaying' = FALSE
                              /\ startTime' = 0
                              /\ pauseOffset' = 0
                              /\ source' = 0
                              /\ endedPending' = endedPending + (IF source = 1 THEN 1 ELSE 0)
                           \/ /\ ~complete
                              /\ UNCHANGED <<isPlaying, startTime, pauseOffset, source,
                                             endedPending>>
    /\ started' = [started EXCEPT !.queried = TRUE]
    /\ UNCHANGED <<screen, loading>>
    /\ UNCHANGED loadVars

NextGame ==
    \/ \E track \in GameTracks : OnFileSelected(track)
    \/ FileLoaded
    \/ FileFails
    \/ TimerStartGame
    \/ TimerToMenu
    \/ TimerFadeStop
    \/ TimerShowGameOver
    \/ Frame
    \/ SourceEnded
    \/ SourceEndsNaturally
    \/ ClickRetry
    \/ ClickContinue
    \/ ClickNewSong
    \/ PressW

SpecGame == InitGen /\ [][NextGame]_vars

\* ------------------------------------------------ loadFile, stage by stage
\* raw band energies of a window: the same level in every band
Level(n, d) == [band \in Bands |-> Dec(n, d)]

NoBuffer == "null"

\* the peak lists: a first peak at window 40 and up to two gaps, in 10 ms
\* windows (0.2 s and 2.0 s are outside the accepted range)
PeakGaps == {20, 26, 33, 34, 50, 75, 100, 150, 199, 200}

PeakLists ==
    {<<>>, <<40>>, <<40, 73, 123, 223>>}
    \cup {<<40, 40 + a>> : a \in PeakGaps}
    \cup {<<40, 40 + a, 40 + a + b>> : a \in PeakGaps, b \in PeakGaps}

\* 9.2 s, quiet up to 6.55 s and loud from there
LoudLate(peaks) ==
    [name |-> "late", decodes |-> TRUE, duration |-> Dec(92, 10), peaks |-> peaks,
     raw |-> <<[n |-> 262, e |-> Level(2, 10)], [n |-> 104, e |-> Level(2, 1)]>>]

\* 5 s, loud from the first window, with a short dip
LoudShort(peaks) ==
    [name |-> "short", decodes |-> TRUE, duration |-> N(5), peaks |-> peaks,
     raw |-> <<[n |-> 60, e |-> Level(3, 1)], [n |-> 2, e |-> Level(1, 1)],
               [n |-> 136, e |-> Level(3, 1)]>>]

\* 10 s of digital silence: no energy, no peak
SilentTen ==
    [name |-> "silent", decodes |-> TRUE, duration |-> N(10), peaks |-> <<>>,
     raw |-> <<[n |-> 398, e |-> Level(0, 1)]>>]

\* 5 s that never reach the floor of the normalisation: 0.0002, then 0.0005
NearSilent(peaks) ==
    [name |-> "faint", decodes |-> TRUE, duration |-> N(5), peaks |-> peaks,
     raw |-> <<[n |-> 98, e |-> Level(2, 10000)], [n |-> 100, e |-> Level(5, 10000)]>>]

\* a file decodeAudioData rejects
Corrupt ==
    [name |-> "corrupt", decodes |-> FALSE, duration |-> 0, peaks |-> <<>>, raw |-> <<>>]

\* 16.5 s: more energy samples than one call takes arguments
LongSong ==
    [name |-> "long", decodes |-> TRUE, duration |-> Dec(165, 10), peaks |-> <<40, 90>>,
     raw |-> <<[n |-> 300, e |-> Level(2, 10)], [n |-> 358, e |-> Level(2, 1)]>>]

AnalysisTracks ==
    {LoudLate(p) : p \in PeakLists} \cup {LoudShort(p) : p \in PeakLists}
    \cup {NearSilent(p) : p \in {<<>>, <<40, 90>>}}
    \cup {SilentTen, Corrupt, LongSong}

\* the state after the constructors, with every analysis field of the
\* AudioManager
NewAudio ==
    [buffer |-> NoBuffer, duration |-> 0, energyMap |-> <<>>, bpm |-> 120,
     beatTimes |-> <<>>, melodyOnsets |-> <<>>]

InitLoad ==
    /\ audio = NewAudio
    /\ events = <<>>
    /\ pc = "idle"
    /\ loop = NoLocals
    /\ NewScheduler
    /\ NewGame
    /\ lastGood = [audio |-> NewAudio, events |-> <<>>]

\* the stages that run in one task: from the resolution of decodeAudioData
\* to the continuation of _onFileSelected
Analysing == stage \in {"energy", "bpm", "melody", "grid", "resolved", "failed"}

\* a step of loadFile that changes nothing but the AudioManager's analysis
LoadStep(from, to, pct) ==
    /\ stage = from
    /\ stage' = to
    /\ progress' = progress \o pct
    /\ UNCHANGED <<events, pc, loop, lastGood>>
    /\ UNCHANGED schedVars
    /\ UNCHANGED playVars
    /\ UNCHANGED <<state, isTransitioning, deathAudioTime, screen, loading, timers, walls,
                   started, overBy>>

\* "if (!this.ctx) await this.init(); onProgress(10); await file.arrayBuffer()"
LoadInit == LoadStep("init", "arrayBuffer", <<10>>) /\ UNCHANGED audio

\* "onProgress(30); this.buffer = await this.ctx.decodeAudioData(arrayBuffer)"
LoadRead == LoadStep("arrayBuffer", "decode", <<30>>) /\ UNCHANGED audio

\* decodeAudioData resolves: buffer, duration, "onProgress(50)"
Decoded ==
    /\ stage = "decode"
    /\ loading.decodes
    /\ LoadStep("decode", "energy", <<50>>)
    /\ audio' = [audio EXCEPT !.buffer = loading.name, !.duration = loading.duration]

\* decodeAudioData rejects
DecodeFails ==
    /\ stage = "decode"
    /\ ~loading.decodes
    /\ LoadStep("decode", "failed", <<>>)
    /\ UNCHANGED audio

\* _analyzeEnergy(), "onProgress(70)"
AnalyzeEnergy ==
    /\ stage = "energy"
    /\ ~spreadThrows(loading.raw)
    /\ LoadStep("energy", "bpm", <<70>>)
    /\ audio' = [audio EXCEPT !.energyMap = normalizeEnergy(loading.raw)]

\* _analyzeEnergy() up to the RangeError of its first Math.max(...)
AnalyzeEnergyThrows ==
    /\ stage = "energy"
    /\ spreadThrows(loading.raw)
    /\ LoadStep("energy", "failed", <<>>)
    /\ audio' = [audio EXCEPT !.energyMap = loading.raw]

\* variant: a tempo stage that leaves bpm as it was
DetectBPMSkipped == LoadStep("bpm", "melody", <<85>>) /\ UNCHANGED audio

\* _detectBPM(), "onProgress(85)"
DetectBPM ==
    /\ LoadStep("bpm", "melody", <<85>>)
    /\ audio' = [audio EXCEPT !.bpm = detectBPM(loading.peaks)]

\* _detectMelodyOnsets(), "onProgress(90)"
DetectMelodyOnsets ==
    /\ LoadStep("melody", "grid", <<90>>)
    /\ audio' = [audio EXCEPT !.melodyOnsets = detectMelodyOnsets(audio.energyMap)]

\* _detectBeats(), "onProgress(100)"
DetectBeats ==
    /\ LoadStep("grid", "resolved", <<100>>)
    /\ audio' = [audio EXCEPT
                    !.beatTimes = detectBeats(audio.energyMap, audio.bpm, audio.duration)]

\* variant: a generate() that neither empties the list nor rewinds the cursor
LoadResolvedAppending ==
    /\ stage = "resolved"
    /\ stage' = "idle"
    /\ \E rnd \in SchedRnd : events' = events \o generate(audio, rnd)
    /\ pc' = "done"
    /\ queries' = <<>>
    /\ batches' = <<>>
    /\ prevQueries' = <<>>
    /\ prevBatches' = <<>>
    /\ loading' = NoTrack
    /\ timers' = Append(timers, "startGame")
    /\ lastGood' = [audio |-> audio, events |-> events']
    /\ UNCHANGED <<audio, loop, toSpawn, progress, currentEventIndex>>
    /\ UNCHANGED playVars
    /\ UNCHANGED <<state, isTransitioning, deathAudioTime, screen, walls, started, overBy>>

\* _onFileSelected after the await: generate, and the timer of _startGame
LoadResolved ==
    /\ stage = "resolved"
    /\ stage' = "idle"
    /\ \E rnd \in SchedRnd : events' = generate(audio, rnd)
    /\ currentEventIndex' = 0
    /\ pc' = "done"
    /\ queries' = <<>>
    /\ batches' = <<>>
    /\ prevQueries' = <<>>
    /\ prevBatches' = <<>>
    /\ loading' = NoTrack
    /\ timers' = Append(timers, "startGame")
    /\ lastGood' = [audio |-> audio, events |-> events']
    /\ UNCHANGED <<audio, loop, toSpawn, progress>>
    /\ UNCHANGED playVars
    /\ UNCHANGED <<state, isTransitioning, deathAudioTime, screen, walls, started, overBy>>

\* the catch branch of _onFileSelected
LoadRejected ==
    /\ stage = "failed"
    /\ stage' = "idle"
    /\ loading' = NoTrack
    /\ timers' = Append(timers, "toMenu")
    /\ UNCHANGED <<audio, progress, lastGood>>
    /\ UNCHANGED genVars
    /\ UNCHANGED schedVars
    /\ UNCHANGED playVars
    /\ UNCHANGED <<state, isTransitioning, deathAudioTime, screen, walls, started, overBy>>

NextLoad ==
    \/ \E track \in AnalysisTracks : OnFileSelected(track)
    \/ LoadInit
    \/ LoadRead
    \/ Decoded
    \/ DecodeFails
    \/ AnalyzeEnergy
    \/ AnalyzeEnergyThrows
    \/ DetectBPM
    \/ DetectMelodyOnsets
    \/ DetectBeats
    \/ LoadResolved
    \/ LoadRejected
    \/ TimerToMenu

SpecLoad == InitLoad /\ [][NextLoad]_vars

\* ---------------------------------------- the game with loadFile in stages
\* the files offered to the game: two that load (peaks 0.5 s apart give
\* 120 bpm, peaks 0.75 s apart 80 bpm), one that is too long for the
\* normalisation, one the decoder rejects
ReloadTracks == {LoudLate(<<40, 90>>), LoudLate(<<40, 115>>), LongSong, Corrupt}

\* Timers, frames and input events are tasks of their own: none runs inside
\* the task that analyses the decoded track.
NextReload ==
    \/ \E track \in ReloadTracks : OnFileSelected(track)
    \/ LoadInit
    \/ LoadRead
    \/ Decoded
    \/ DecodeFails
    \/ AnalyzeEnergy
    \/ AnalyzeEnergyThrows
    \/ DetectBPM
    \/ DetectMelodyOnsets
    \/ DetectBeats
    \/ LoadResolved
    \/ LoadRejected
    \/ ~Analysing /\ TimerStartGame
    \/ ~Analysing /\ TimerToMenu
    \/ ~Analysing /\ TimerFadeStop
    \/ ~Analysing /\ TimerShowGameOver
    \/ ~Analysing /\ Frame
    \/ ~Analysing /\ SourceEnded
    \/ ~Analysing /\ ClickRetry
    \/ ~Analysing /\ ClickContinue
    \/ ~Analysing /\ ClickNewSong
    \/ ~Analysing /\ PressW

SpecReload == InitLoad /\ [][NextReload]_vars

\* ------------------------------------------------------------ properties
Shares(a, b) == Items(a) \cap Items(b) # {}

RECURSIVE Concat(_)
Concat(seqs) == IF seqs = <<>> THEN <<>> ELSE Head(seqs) \o Concat(Tail(seqs))

\* the events handed out since the last reset, in the order they were handed out
Handed == Concat(batches)

IsSubBeat(ev) == ~Includes(audio.beatTimes, ev.time)

ArrivalSorted(evs) ==
    \A i, j \in 1..Len(evs) : i < j => evs[i].time <= evs[j].time

SpawnSorted(evs) ==
    \A i, j \in 1..Len(evs) : i < j => evs[i].spawnTime <= evs[j].spawnTime

HandedEvents == [k \in 1..Len(Handed) |-> events[Handed[k]]]

NonDecreasing(ts) == \A i, j \in 1..Len(ts) : i < j => ts[i] <= ts[j]

CoversAll(ts) ==
    /\ ts # <<>>
    /\ \A k \in 1..Len(events) : events[k].spawnTime <= ts[Len(ts)]

(* C1: after a non-decreasing sequence of getEventsForTime calls, with no   *)
(* reset in between, whose last time is at least the largest spawnTime, the *)
(* concatenation of the returned batches is the whole event list in list    *)
(* order, no event twice and none left out.                                 *)
C1_ExactlyOnce ==
    pc = "done" /\ NonDecreasing(queries) /\ CoversAll(queries)
        => Handed = [k \in 1..Len(events) |-> k]

\* a list with a sub-beat event, handed out completely in three batches
C1_Witness ==
    /\ pc = "done"
    /\ NonDecreasing(queries)
    /\ CoversAll(queries)
    /\ Len(batches) = 3
    /\ \A k \in 1..3 : batches[k] # <<>>
    /\ \E k \in 1..Len(events) : IsSubBeat(events[k])

(* C2: after generate() the event list, sub-beat events included, is sorted *)
(* ascending by spawnTime, and the events handed out by getEventsForTime,   *)
(* within a batch and across the batches since the last reset, are in       *)
(* non-decreasing spawnTime order.                                          *)
C2_SortedBySpawnTime ==
    pc = "done" => SpawnSorted(events) /\ SpawnSorted(HandedEvents)

\* a list with a sub-beat event that the sort had to reorder, handed out in two batches
C2_Witness ==
    /\ pc = "done"
    /\ \E i \in 1..Len(events) : IsSubBeat(events[i])
    /\ ~ArrivalSorted(events)
    /\ Len(batches) = 2
    /\ batches[1] # <<>>
    /\ batches[2] # <<>>

(* C3, as stated: of any two events handed out between resets, the one      *)
(* handed out earlier has an arrival time <= that of the later one.         *)
C3_ArrivalOrder ==
    pc = "done" => ArrivalSorted(HandedEvents)

(* C3, amended: of any two events handed out between resets, the earlier    *)
(* one has the smaller or equal spawnTime; its arrival time is smaller or   *)
(* equal too whenever it is at least as fast as the later one.              *)
C3_SpawnOrder ==
    pc = "done" =>
        \A i, j \in 1..Len(Handed) :
            i < j =>
                /\ HandedEvents[i].spawnTime <= HandedEvents[j].spawnTime
                /\ HandedEvents[i].speed >= HandedEvents[j].speed
                       => HandedEvents[i].time <= HandedEvents[j].time

\* a slow event handed out before a faster one that arrives earlier
C3_Witness ==
    /\ pc = "done"
    /\ \E i, j \in 1..Len(Handed) :
          /\ i < j
          /\ HandedEvents[i].speed < HandedEvents[j].speed
          /\ HandedEvents[i].time > HandedEvents[j].time
    /\ \E i, j \in 1..Len(Handed) :
          /\ i < j
          /\ HandedEvents[i].speed > HandedEvents[j].speed
          /\ HandedEvents[i].time < HandedEvents[j].time

\* after a reset the cursor is 0, and a replayed prefix of queries repeats its batches
C4_Replay ==
    pc = "done" =>
        /\ queries = <<>> => currentEventIndex = 0
        /\ \A n \in 1..Len(queries) :
              /\ n <= Len(prevQueries)
              /\ SubSeq(queries, 1, n) = SubSeq(prevQueries, 1, n)
              /\ NonDecreasing(SubSeq(queries, 1, n))
              => SubSeq(batches, 1, n) = SubSeq(prevBatches, 1, n)

C4_ResetKeepsEvents ==
    pc = "done" /\ pc' = "done" => events' = events

(* C4: reset() sets the cursor to 0 and leaves the event list unchanged;   *)
(* after it, replaying the non-decreasing query times of the run before     *)
(* returns the same batches, with the same boundaries, as that run did.     *)
C4_ResetIdempotent == [](C4_Replay) /\ [][C4_ResetKeepsEvents]_vars

\* a replay of three queries that handed out the list in several batches
C4_Witness ==
    /\ pc = "done"
    /\ Len(queries) = 3
    /\ queries = prevQueries
    /\ NonDecreasing(queries)
    /\ batches = prevBatches
    /\ batches[1] # <<>>
    /\ batches[3] # <<>>
    /\ currentEventIndex = Len(events)

NoDuplicates(seq) == \A i, j \in 1..Len(seq) : i # j => seq[i] # seq[j]

C5_CursorInRange ==
    /\ currentEventIndex \in 0..Len(events)
    /\ NoDuplicates(Handed)

\* a step that is a call of getEventsForTime
QueryStep == pc = "done" /\ Len(queries') = Len(queries) + 1

C5_QueryStep ==
    QueryStep =>
        /\ currentEventIndex' >= currentEventIndex
        /\ queries # <<>> /\ queries'[Len(queries')] = queries[Len(queries)]
              => toSpawn' = <<>> /\ currentEventIndex' = currentEventIndex

(* C5: for any sequence of getEventsForTime calls, in any order of times,   *)
(* with no reset or generate in between, the cursor never decreases and     *)
(* stays within 0..events.length, no event is returned twice, and a call    *)
(* that repeats the previous time returns nothing and leaves the cursor.    *)
C5_AtMostOnce == [](C5_CursorInRange) /\ [][C5_QueryStep]_vars

\* a repeated query that returned nothing, then a query at an earlier time
C5_Witness ==
    /\ pc = "done"
    /\ Len(queries) = 3
    /\ queries[1] = queries[2]
    /\ queries[3] < queries[2]
    /\ batches[1] # <<>>
    /\ batches[2] = <<>>
    /\ currentEventIndex < Len(events)

(* C6: whenever the game enters PLAYING with the audio starting at position *)
(* 0 (first start, retry, or a continue whose saved position is 0 or unset) *)
(* the cursor is 0 at the first scheduler query that follows.               *)
C6_CursorZeroAtZero ==
    state = "PLAYING" /\ ~started.queried /\ started.at = 0 => currentEventIndex = 0

\* every event with spawnTime <= the time of the last query has been handed out
DueHandedOut ==
    pc = "done" /\ queries # <<>> =>
        \A k \in 1..Len(events) :
            events[k].spawnTime <= queries[Len(queries)] => k <= currentEventIndex

C7_NothingLostOrRepeated == NoDuplicates(Handed) /\ DueHandedOut

\* a step that is _onContinue after a death
ContinueAfterDeath ==
    /\ state = "GAME_OVER"
    /\ overBy = "death"
    /\ state' = "PLAYING"
    /\ started'.by = "continue"

C7_ContinueStep ==
    ContinueAfterDeath =>
        /\ currentEventIndex' = currentEventIndex
        /\ events' = events
        /\ pauseOffset' = deathAudioTime
        /\ source' = 1
        /\ isPlaying'
        /\ started'.at = deathAudioTime

(* C7: _onContinue after a death leaves the cursor and the event list as    *)
(* they are and starts playback at the saved death time; after it, every    *)
(* event whose spawnTime the playback clock has reached has been returned,  *)
(* and no event is returned twice.                                          *)
C7_ContinueKeepsScheduler == [](C7_NothingLostOrRepeated) /\ [][C7_ContinueStep]_vars

\* after a death and a continue, a frame hands out the events the death had left
C7_Witness ==
    /\ state = "PLAYING"
    /\ overBy = "death"
    /\ started.by = "continue"
    /\ started.at > 0
    /\ started.queried
    /\ started.cursor > 0
    /\ toSpawn # <<>>
    /\ toSpawn[1] = started.cursor + 1
    /\ currentEventIndex = Len(events)

(* C8: between two cursor resets (levelGen.reset() or generate()) the times *)
(* Game._update passes to getEventsForTime are non-decreasing.              *)
C8_QueryTimesNonDecreasing ==
    \A i \in 1..Len(queries) - 1 : queries[i] <= queries[i + 1]

\* b follows a in arrival-time order, with no event arriving in between
ArrivalAdjacent(evs, i, j) ==
    /\ evs[i].time < evs[j].time
    /\ ~\E k \in 1..Len(evs) : evs[i].time < evs[k].time /\ evs[k].time < evs[j].time

(* C9: in the final event list of generate(), every two events adjacent in  *)
(* arrival-time order whose arrival times differ by less than one beat      *)
(* interval share at least one open side.                                   *)
C9_Passable ==
    pc = "done" =>
        \A i, j \in 1..Len(events) :
            ArrivalAdjacent(events, i, j)
            /\ FSub(events[j].time, events[i].time) < beatInterval(audio)
                => Shares(events[i].gaps, events[j].gaps)

(* C10: every two events emitted consecutively by the beat pass share an    *)
(* open side; a pattern disjoint from the previous emitted pattern gets     *)
(* exactly one side of the previous pattern added, and a pattern that       *)
(* intersects it keeps its nominal shape.                                   *)
C10_SharedGapFixUp ==
    pc = "beats" =>
        /\ Len(loop.nominal) = Len(events)
        /\ Len(events) > 0 => events[1].gaps = loop.nominal[1]
        /\ \A k \in 2..Len(events) :
              LET prev == events[k - 1].gaps
                  shape == loop.nominal[k]
                  gaps == events[k].gaps
              IN  /\ Shares(prev, gaps)
                  /\ IF Shares(prev, shape) THEN gaps = shape
                     ELSE /\ Len(gaps) = Len(shape) + 1
                          /\ SubSeq(gaps, 1, Len(shape)) = shape
                          /\ gaps[Len(gaps)] \in Items(prev)

\* a fix-up across a skipped beat, and an untouched pattern, in one beat pass
C10_Witness ==
    /\ pc = "beats"
    /\ \E k \in 2..Len(events) :
          /\ ~Shares(events[k - 1].gaps, loop.nominal[k])
          /\ events[k].gaps # loop.nominal[k]
          /\ FSub(events[k].time, events[k - 1].time) > FMul(beatInterval(audio), Dec(15, 10))
    /\ \E k \in 6..Len(events) : events[k].gaps = loop.nominal[k]


\* The beat-pass events of the list that surround the sub-beat event sub:
\* the latest one arriving before it and the earliest one arriving after it.
BeatPassBefore(evs, sub) ==
    {i \in 1..Len(evs) :
        /\ ~IsSubBeat(evs[i])
        /\ evs[i].time < sub.time
        /\ \A j \in 1..Len(evs) :
              (~IsSubBeat(evs[j]) /\ evs[j].time < sub.time)
                  => evs[j].time <= evs[i].time}

BeatPassAfter(evs, sub) ==
    {i \in 1..Len(evs) :
        /\ ~IsSubBeat(evs[i])
        /\ evs[i].time > sub.time
        /\ \A j \in 1..Len(evs) :
              (~IsSubBeat(evs[j]) /\ evs[j].time > sub.time)
                  => evs[j].time >= evs[i].time}

\* C11: every sub-beat event of the generated list shares at least one open
\* side with the beat-pass event A that precedes it and at least one open
\* side with the beat-pass event B that follows it.
C11_SubBeatPassable ==
    pc = "done" =>
        \A s \in 1..Len(events) :
            IsSubBeat(events[s]) =>
                /\ \A a \in BeatPassBefore(events, events[s]) :
                      Shares(events[s].gaps, events[a].gaps)
                /\ \A b \in BeatPassAfter(events, events[s]) :
                      Shares(events[s].gaps, events[b].gaps)

\* The half of C11 that the construction gives: the side taken from A.
C11_SharesWithPreceding ==
    pc = "done" =>
        \A s \in 1..Len(events) :
            IsSubBeat(events[s]) =>
                /\ BeatPassBefore(events, events[s]) # {}
                /\ \A a \in BeatPassBefore(events, events[s]) :
                      Shares(events[s].gaps, events[a].gaps)


\* The travel time as the generator computes it from an event's final speed.
TravelTime(ev) == FDiv(spawnRadius, ev.speed)

\* A beat-pass event whose speed carries the bass boost.
BassBoosted(ev) ==
    ~IsSubBeat(ev) /\ getEnergyAt(audio.energyMap, ev.time).bass > Dec(7, 10)

\* The claim's equation read exactly, in the generator's own arithmetic:
\* subtracting spawnTime from time gives back the quotient.
C12_ExactTravelTime ==
    pc = "done" =>
        \A i \in 1..Len(events) :
            /\ events[i].speed > 0
            /\ FSub(events[i].time, events[i].spawnTime) = TravelTime(events[i])

\* C12: every event of the generated list, beat-pass or sub-beat, has
\* speed > 0, and its spawnTime is its time minus spawnRadius / speed,
\* computed with the event's final speed and rounded once: time - spawnTime
\* equals spawnRadius / speed up to the rounding error of that subtraction.
C12_SpawnTimeFromFinalSpeed ==
    pc = "done" =>
        \A i \in 1..Len(events) :
            /\ events[i].speed > 0
            /\ events[i].spawnTime = FSub(events[i].time, TravelTime(events[i]))
            /\ Abs((events[i].time - events[i].spawnTime) - TravelTime(events[i]))
                   <= events[i].time \div (2 ^ MantBits)

\* A generated list with a bass-boosted beat-pass event and a sub-beat event,
\* in which the exact equation fails for some event.
C12_Witness ==
    /\ pc = "done"
    /\ \E i \in 1..Len(events) : BassBoosted(events[i])
    /\ \E i \in 1..Len(events) : IsSubBeat(events[i])
    /\ \E i \in 1..Len(events) :
          FSub(events[i].time, events[i].spawnTime) # TravelTime(events[i])

\* spawnRadius / (0.7 x baseSpeed) + 2.0
ClaimedGrace == FAdd(FDiv(spawnRadius, FMul(Dec(7, 10), baseSpeed)), N(2))

\* C13: no event, beat-pass or sub-beat, emitted so far or in the finished
\* list, arrives earlier than spawnRadius / (0.7 x baseSpeed) + 2.0 seconds.
C13_GracePeriod ==
    \A i \in 1..Len(events) : events[i].time >= ClaimedGrace

\* A finished, non-empty list for a track whose beat grid starts inside the
\* grace period.
C13_Witness ==
    /\ pc = "done"
    /\ Len(events) > 0
    /\ \E b \in 1..Len(audio.beatTimes) : audio.beatTimes[b] < ClaimedGrace

\* C14: in the beat pass the i-th emitted event (i = 0..4) has gaps exactly
\* i, i+1, i+2 modulo 6, and the shared-gap fix-up adds no side to it: the
\* pattern stored is the pattern chosen.
C14_FirstFiveHalfOpen ==
    pc = "beats" =>
        \A k \in 1..Len(events) :
            k <= 5 =>
                /\ events[k].gaps =
                       <<(k - 1) % HEX_SIDES, k % HEX_SIDES, (k + 1) % HEX_SIDES>>
                /\ events[k].gaps = loop.nominal[k]

\* The beat pass has emitted its first five events, on beats of low and of
\* high energy.
C14_Witness ==
    /\ pc = "beats"
    /\ Len(events) >= 5
    /\ \E k \in 1..5 :
          getEnergyAt(audio.energyMap, events[k].time).total > Dec(8, 10)

\* baseSpeed * 0.8, the speed of the easy branch
EasySpeed == FMul(baseSpeed, Dec(8, 10))

BassAt(ev) == getEnergyAt(audio.energyMap, ev.time).bass

\* The claim as stated: the first five events of the beat pass have speed
\* 0.8 x baseSpeed whatever the energy at their beats.
C15_FirstFiveEasySpeed ==
    pc = "beats" =>
        \A k \in 1..Len(events) : k <= 5 => events[k].speed = EasySpeed

\* C15: the first five events emitted by the beat pass have speed
\* 0.8 x baseSpeed whatever the total energy at their beats, multiplied by
\* 1.2 when the bass energy at the beat is above 0.7.
C15_FirstFiveSpeed ==
    pc = "beats" =>
        \A k \in 1..Len(events) :
            k <= 5 =>
                events[k].speed =
                    IF BassAt(events[k]) > Dec(7, 10)
                    THEN FMul(EasySpeed, Dec(12, 10))
                    ELSE EasySpeed

\* Five events emitted, one on a beat with strong bass and one on a beat
\* without, on beats of high and of very low total energy.
C15_Witness ==
    /\ pc = "beats"
    /\ Len(events) >= 5
    /\ \E k \in 1..5 : BassAt(events[k]) > Dec(7, 10)
    /\ \E k \in 1..5 : BassAt(events[k]) <= Dec(7, 10) /\ events[k].speed = EasySpeed
    /\ \E k \in 1..5 :
          getEnergyAt(audio.energyMap, events[k].time).total > Dec(8, 10)
    /\ \E k \in 1..5 :
          getEnergyAt(audio.energyMap, events[k].time).total <= Dec(2, 10)

\* The time of the first energy sample with total > 0.5, 0 when there is
\* none.
FirstStrong(map) ==
    LET strong == {k \in 0..(EnergyLength(map) - 1) :
                      EnergyAtIndex(map, k).total > Dec(5, 10)}
    IN  IF strong = {} THEN 0
        ELSE SampleTime(CHOOSE k \in strong : \A j \in strong : k <= j)

\* 60 / BPM, as a number
BeatSpacing == FDiv(N(60), N(audio.bpm))

\* The claim as stated: the grid starts at firstBeatTime and holds exactly
\* the points firstBeatTime + k * (60 / BPM) below the duration, so that
\* consecutive entries are exactly 60 / BPM apart.
C16_ExactGrid ==
    stage = "resolved" =>
        LET b == audio.beatTimes
            first == FirstStrong(audio.energyMap)
        IN  /\ \A i \in 1..Len(b) :
                  /\ b[i] = first + (i - 1) * BeatSpacing
                  /\ b[i] < audio.duration
            /\ \A i \in 1..(Len(b) - 1) :
                  b[i] < b[i + 1] /\ FSub(b[i + 1], b[i]) = BeatSpacing
            /\ first + Len(b) * BeatSpacing >= audio.duration

\* C16: beatTimes starts at firstBeatTime (the time of the first energy
\* sample with total > 0.5, or 0 when there is none), is strictly
\* increasing, each entry being the previous one plus 60 / BPM in floating
\* point (so within accumulated rounding error of the exact grid point),
\* every entry is below the track duration and the next sum is not; BPM 120,
\* duration 10 s and firstBeatTime 0 give the 20 beats 0, 0.5, ..., 9.5.
C16_BeatGrid ==
    stage = "resolved" =>
        LET b == audio.beatTimes
            first == FirstStrong(audio.energyMap)
        IN  /\ IF first < audio.duration THEN Len(b) >= 1 /\ b[1] = first ELSE b = <<>>
            /\ \A i \in 1..Len(b) :
                  /\ b[i] < audio.duration
                  /\ Abs(b[i] - (first + (i - 1) * BeatSpacing))
                         <= (i - 1) * (audio.duration \div (2 ^ MantBits))
            /\ \A i \in 1..(Len(b) - 1) :
                  b[i] < b[i + 1] /\ b[i + 1] = FAdd(b[i], BeatSpacing)
            /\ Len(b) >= 1 => FAdd(b[Len(b)], BeatSpacing) >= audio.duration
            /\ (audio.bpm = 120 /\ audio.duration = N(10) /\ first = 0)
                   => b = [k \in 1..20 |-> Dec(k - 1, 2)]

\* A grid of a track whose tempo is not 120, starting at a first strong
\* sample after 0, in which some entry is off the exact grid point.
C16_Witness ==
    /\ stage = "resolved"
    /\ audio.bpm # 120
    /\ FirstStrong(audio.energyMap) > 0
    /\ \E i \in 1..Len(audio.beatTimes) :
          audio.beatTimes[i] #
              FirstStrong(audio.energyMap) + (i - 1) * BeatSpacing

\* The beat grid of the claim's example: BPM 120, 10 s, firstBeatTime 0.
C16_ExampleReached ==
    /\ stage = "resolved"
    /\ audio.bpm = 120 /\ audio.duration = N(10)
    /\ Len(audio.beatTimes) = 20

\* The inter-peak intervals d / 100 s that lie inside (0.25, 2.0), as a set of
\* positions in the peak list.
Accepted(peaks) ==
    {i \in 2..Len(peaks) :
        /\ peakInterval(peaks[i] - peaks[i - 1]) > Dec(25, 100)
        /\ peakInterval(peaks[i] - peaks[i - 1]) < N(2)}

IntervalAt(peaks, i) == peakInterval(peaks[i] - peaks[i - 1])

\* The median the code takes: the element at index floor(n / 2) of the
\* accepted intervals in ascending order.
IsMedian(peaks, m) ==
    LET acc == Accepted(peaks)
        half == Cardinality(acc) \div 2
    IN  /\ \E i \in acc : IntervalAt(peaks, i) = m
        /\ Cardinality({i \in acc : IntervalAt(peaks, i) < m}) <= half
        /\ Cardinality({i \in acc : IntervalAt(peaks, i) <= m}) > half

\* 60 / median, doubled while below 80 and halved while above 180
ScaledTempo(m) ==
    LET raw == FDiv(N(60), m)
    IN  IF raw < N(40) THEN FMul(FMul(raw, N(2)), N(2))
        ELSE IF raw < N(80) THEN FMul(raw, N(2))
        ELSE IF raw > N(180) THEN FDiv(raw, N(2))
        ELSE raw

\* r is x rounded to the nearest integer, halves up
IsRounded(r, x) ==
    /\ 2 * r * Unit - Unit <= 2 * x
    /\ 2 * x < 2 * r * Unit + Unit

\* C17: tempo detection ends with an integer BPM in [80, 180]: 120 when there
\* are fewer than 2 peaks or no inter-peak interval in the accepted range,
\* otherwise 60 / median doubled while below 80, halved while above 180, and
\* then rounded.
C17_TempoInRange ==
    stage \in {"melody", "grid", "resolved"} =>
        /\ audio.bpm \in 80..180
        /\ IF Len(loading.peaks) < 2 \/ Accepted(loading.peaks) = {}
           THEN audio.bpm = 120
           ELSE \E i \in Accepted(loading.peaks) :
                   /\ IsMedian(loading.peaks, IntervalAt(loading.peaks, i))
                   /\ IsRounded(audio.bpm, ScaledTempo(IntervalAt(loading.peaks, i)))

\* A tempo found from two accepted intervals whose median gives more than
\* 180, halved into the range.
C17_Witness ==
    /\ stage = "melody"
    /\ Cardinality(Accepted(loading.peaks)) = 2
    /\ \E i \in Accepted(loading.peaks) :
          /\ IsMedian(loading.peaks, IntervalAt(loading.peaks, i))
          /\ FDiv(N(60), IntervalAt(loading.peaks, i)) > N(180)
    /\ audio.bpm # 120

\* A tempo doubled twice: 60 / median below 40.
C17_DoubledTwice ==
    /\ stage = "melody"
    /\ \E i \in Accepted(loading.peaks) :
          /\ IsMedian(loading.peaks, IntervalAt(loading.peaks, i))
          /\ FDiv(N(60), IntervalAt(loading.peaks, i)) < N(40)

\* The default tempo, for a peak list whose intervals are all rejected.
C17_DefaultReached ==
    /\ stage = "melody"
    /\ Len(loading.peaks) >= 2
    /\ Accepted(loading.peaks) = {}
    /\ audio.bpm = 120

\* The energy map holds the normalised energies of the track being loaded.
EnergyAnalysed == stage \in {"bpm", "melody", "grid", "resolved"}

\* the largest value of a band over a run-length encoded map that is not empty
TopOf(map, band) ==
    LET values == {map[r].e[band] : r \in 1..Len(map)}
    IN  CHOOSE v \in values : \A w \in values : w <= v

InUnitInterval(map) ==
    \A r \in 1..Len(map) : \A band \in Bands :
        map[r].e[band] >= 0 /\ map[r].e[band] <= N(1)

\* The claim as stated: the maximum of total is 1.0 for every track with a
\* non-empty map, the silent and the near-silent included.
C18_MaxTotalIsOne ==
    (EnergyAnalysed /\ audio.energyMap # <<>>) =>
        /\ TopOf(audio.energyMap, "total") = N(1)
        /\ InUnitInterval(audio.energyMap)

\* C18: after _analyzeEnergy, whenever the energy map is non-empty every
\* bass, mid, treble and total value lies in [0,1]; the maximum of total is
\* 1.0 when the raw maximum reaches the floor 0.001, and raw maximum / 0.001,
\* below 1.0, when it does not (0 for a silent track).
C18_Normalised ==
    (EnergyAnalysed /\ audio.energyMap # <<>>) =>
        LET rawTop == TopOf(loading.raw, "total")
        IN  /\ InUnitInterval(audio.energyMap)
            /\ rawTop >= Dec(1, 1000) => TopOf(audio.energyMap, "total") = N(1)
            /\ rawTop < Dec(1, 1000) =>
                  /\ TopOf(audio.energyMap, "total") = FDiv(rawTop, Dec(1, 1000))
                  /\ TopOf(audio.energyMap, "total") < N(1)

\* The energy map of a near-silent track: a raw maximum above 0 and below
\* the floor.
C18_Witness ==
    /\ EnergyAnalysed
    /\ audio.energyMap # <<>>
    /\ TopOf(loading.raw, "total") > 0
    /\ TopOf(loading.raw, "total") < Dec(1, 1000)

\* The energy map of a track whose raw maximum is above the floor, with
\* values below the maximum.
C18_LoudReached ==
    /\ EnergyAnalysed
    /\ audio.energyMap # <<>>
    /\ TopOf(loading.raw, "total") > N(1)
    /\ \E r \in 1..Len(audio.energyMap) : audio.energyMap[r].e.total < N(1)

Percentages == <<10, 30, 50, 70, 85, 90, 100>>

\* how many progress reports a loadFile at this stage has made
ReportsAt(st) ==
    CASE st = "init" -> {0}
      [] st = "arrayBuffer" -> {1}
      [] st = "decode" -> {2}
      [] st = "energy" -> {3}
      [] st = "bpm" -> {4}
      [] st = "melody" -> {5}
      [] st = "grid" -> {6}
      [] st = "resolved" -> {7}
      [] st = "failed" -> {2, 3}
      [] OTHER -> {0, 2, 3, 7}

\* C20: within one loadFile call the stages run in the order energy map, BPM,
\* melodic onsets, beat grid, each on the results of the stages before it for
\* the same track; the progress callback gets 10, 30, 50, 70, 85, 90, 100 in
\* that order, one report per stage reached, and 100 only once every stage
\* has completed.
C20_StagesInOrder ==
    /\ Len(progress) \in ReportsAt(stage)
    /\ progress = SubSeq(Percentages, 1, Len(progress))
    /\ stage \in {"energy", "bpm", "melody", "grid", "resolved"} =>
          audio.buffer = loading.name /\ audio.duration = loading.duration
    /\ stage \in {"bpm", "melody", "grid", "resolved"} =>
          audio.energyMap = normalizeEnergy(loading.raw)
    /\ stage \in {"melody", "grid", "resolved"} =>
          audio.bpm = detectBPM(loading.peaks)
    /\ stage \in {"grid", "resolved"} =>
          audio.melodyOnsets = detectMelodyOnsets(normalizeEnergy(loading.raw))
    /\ stage = "resolved" =>
          audio.beatTimes = detectBeats(normalizeEnergy(loading.raw),
                                        detectBPM(loading.peaks), loading.duration)
    /\ Includes(progress, 100) => stage \in {"resolved", "idle"}

\* A load that has reported 100, of a track with a tempo other than the
\* default, a melodic onset and a beat grid.
C20_Witness ==
    /\ stage = "resolved"
    /\ progress = Percentages
    /\ audio.bpm # 120
    /\ audio.melodyOnsets # <<>>
    /\ audio.beatTimes # <<>>

\* The last loadFile has failed and no other has begun.
LoadFailed ==
    \/ stage = "failed"
    \/ stage = "idle" /\ progress # <<>> /\ ~Includes(progress, 100)

\* C19: after a loadFile that failed (the decoder rejected the input, or an
\* analysis stage threw), buffer, duration, energyMap, bpm, beatTimes and
\* melodyOnsets of the AudioManager and the generator's event list hold the
\* values of the last successful load, and the game is on its way back to
\* MENU without starting play.
C19_FailedLoadKeepsState ==
    LoadFailed =>
        /\ audio = lastGood.audio
        /\ events = lastGood.events
        /\ state \in {"ANALYZING", "MENU"}
        /\ ~Includes(timers, "startGame")

\* The part of C19 about the decoder: the rejection of a file and the catch
\* branch that follows change neither the analysis nor the event list.
C19_RejectedFileKeepsState ==
    [][((stage = "decode" /\ stage' = "failed") \/ stage = "failed")
          => (audio' = audio /\ events' = events)]_vars

\* The part of C19 about the game: a failed load leads back to MENU and
\* never to play, and leaves the event list alone.
C19_ReturnsToMenu ==
    LoadFailed =>
        /\ events = lastGood.events
        /\ state \in {"ANALYZING", "MENU"}
        /\ ~Includes(timers, "startGame")
        /\ ~isPlaying

\* A load fails after an earlier one succeeded.
C19_FailureAfterSuccess ==
    /\ LoadFailed
    /\ lastGood.audio.buffer # NoBuffer
    /\ lastGood.events # <<>>

\* an event of the analysed track: it arrives on a beat of the grid, or half
\* way between two beats that carry events
OfTrack(ev) ==
    \/ Includes(audio.beatTimes, ev.time)
    \/ \E i, j \in 1..Len(events) :
          /\ Includes(audio.beatTimes, events[i].time)
          /\ Includes(audio.beatTimes, events[j].time)
          /\ ev.time = FAdd(events[i].time,
                            FDiv(FSub(events[j].time, events[i].time), N(2)))

\* generate() has run for the loaded track and _startGame is still to come
Generated == pc = "done" /\ stage = "idle" /\ Includes(timers, "startGame")

(* C21: generate() replaces the events wholesale. Once generate() has run   *)
(* for a track, every event of the list belongs to that track's beat grid    *)
(* (none is left from an earlier track), the cursor is 0 until the game      *)
(* starts, and the first query of the started game hands out a prefix of    *)
(* the new list, beginning with its first event.                            *)
C21_ReplacedWholesale ==
    /\ (pc = "done" /\ stage # "resolved") =>
          \A k \in 1..Len(events) : OfTrack(events[k])
    /\ Generated => currentEventIndex = 0 /\ queries = <<>>
    /\ (started.by = "start" /\ batches # <<>>) =>
          batches[1] = [k \in 1..Len(batches[1]) |-> k]
    /\ \A b \in 1..Len(batches) : \A k \in 1..Len(batches[b]) :
          batches[b][k] \in 1..Len(events)

\* the 80 bpm track has just been generated after a game on the 120 bpm
\* track, whose fourth event was among the last handed out
C21_Witness ==
    /\ Generated
    /\ audio.bpm = 80
    /\ events # <<>>
    /\ \E k \in 1..Len(toSpawn) : toSpawn[k] > Len(events)
    /\ \A k \in 1..Len(events) : OfTrack(events[k])

\* the first batch that is not empty, in a game on the 80 bpm track, begins
\* with the list's first event
C21_FirstQueryReached ==
    /\ audio.bpm = 80
    /\ started.by = "start"
    /\ \E b \in 1..Len(batches) :
          /\ batches[b] # <<>> /\ batches[b][1] = 1
          /\ \A c \in 1..(b - 1) : batches[c] = <<>>

\* a step in which getEventsForTime ran
QueryRan == Len(queries') = Len(queries) + 1

\* no loadFile is under way and the analysis and the events are those the
\* last completed load and its generate() left
LoadComplete ==
    /\ stage = "idle"
    /\ loading = NoTrack
    /\ pc = "done"
    /\ audio = lastGood.audio
    /\ events = lastGood.events
    /\ audio.buffer # NoBuffer
    /\ \A k \in 1..Len(events) : OfTrack(events[k])

(* C22: generation happens before any scheduler query. The game is PLAYING  *)
(* only when no load is in progress and the analysis and the event list are *)
(* those of the last track that loadFile and generate() completed for, and  *)
(* every call of getEventsForTime is made in such a state.                  *)
C22_GenerationBeforeQuery ==
    /\ [](state = "PLAYING" => LoadComplete)
    /\ [][QueryRan => state = "PLAYING" /\ LoadComplete]_vars

\* a frame has queried the 80 bpm track and got events
C22_Witness ==
    /\ state = "PLAYING"
    /\ started.queried
    /\ audio.bpm = 80
    /\ LoadComplete
    /\ \E b \in 1..Len(batches) : batches[b] # <<>>

\* the number of beat-pass events that arrive before ev
BeatPassRank(ev) ==
    Cardinality({k \in 1..Len(events) :
                    ~IsSubBeat(events[k]) /\ events[k].time < ev.time})

DifficultyAt(ev) == Min(FDiv(ev.time, audio.duration), N(1))

\* the speed of the first matching branch, in the order of the claim
BranchSpeed(total, d) ==
    IF total > Dec(8, 10) /\ d > Dec(3, 10)
    THEN FMul(baseSpeed, FAdd(N(1), FMul(d, Dec(8, 10))))
    ELSE IF total > Dec(5, 10)
    THEN FMul(baseSpeed, FAdd(N(1), FMul(d, Dec(5, 10))))
    ELSE IF total > Dec(2, 10)
    THEN FMul(baseSpeed, FAdd(Dec(8, 10), FMul(d, Dec(3, 10))))
    ELSE FMul(baseSpeed, Dec(7, 10))

ClaimedSpeed(ev) ==
    LET energy == getEnergyAt(audio.energyMap, ev.time)
        branch == BranchSpeed(energy.total, DifficultyAt(ev))
    IN  IF energy.bass > Dec(7, 10) THEN FMul(branch, Dec(12, 10)) ELSE branch

(* C23: every beat-pass event after the first five has the speed of the     *)
(* first matching branch, taken on the energy at its beat and the           *)
(* difficulty min(time/duration, 1): hard (total > 0.8 and d > 0.3), medium *)
(* (total > 0.5), low (total > 0.2) or very low, times 1.2 exactly when the *)
(* bass at the beat is above 0.7.                                           *)
C23_SpeedByBranch ==
    \A k \in 1..Len(events) :
       (~IsSubBeat(events[k]) /\ BeatPassRank(events[k]) >= 5) =>
          events[k].speed = ClaimedSpeed(events[k])

\* the speed of the beat-pass event at time t, 0 when there is none
SpeedAt(t) ==
    IF \E k \in 1..Len(events) : events[k].time = t /\ ~IsSubBeat(events[k])
    THEN (CHOOSE ev \in Items(events) : ev.time = t /\ ~IsSubBeat(ev)).speed
    ELSE 0

\* the long song: its sixth event, at 11.05 s, is loud before three tenths of
\* the song and has the speed of the medium branch, with the bass factor;
\* its seventh, at 11.8 s, has the speed of the hard branch, without it
C23_Witness ==
    /\ audio.duration = N(37)
    /\ Len(events) = 7
    /\ LET t6 == events[6].time
           t7 == events[7].time
           d6 == FDiv(t6, N(37))
           d7 == FDiv(t7, N(37))
       IN  /\ getEnergyAt(audio.energyMap, t6).total > Dec(8, 10)
           /\ d6 <= Dec(3, 10)
           /\ events[6].speed =
                 FMul(FMul(baseSpeed, FAdd(N(1), FMul(d6, Dec(5, 10)))), Dec(12, 10))
           /\ getEnergyAt(audio.energyMap, t7).bass <= Dec(7, 10)
           /\ d7 > Dec(3, 10)
           /\ events[7].speed = FMul(baseSpeed, FAdd(N(1), FMul(d7, Dec(8, 10))))

\* a finished list with events after the first five that took the low, the
\* very low and the hard branch
C23_BranchesReached ==
    /\ pc = "done"
    /\ \E i, j, k \in {n \in 1..Len(events) :
                          ~IsSubBeat(events[n]) /\ BeatPassRank(events[n]) >= 5} :
          /\ getEnergyAt(audio.energyMap, events[i].time) = Low
          /\ events[i].speed =
                FMul(baseSpeed, FAdd(Dec(8, 10),
                                     FMul(DifficultyAt(events[i]), Dec(3, 10))))
          /\ getEnergyAt(audio.energyMap, events[j].time) = VeryLow
          /\ events[j].speed = FMul(baseSpeed, Dec(7, 10))
          /\ getEnergyAt(audio.energyMap, events[k].time) = High
          /\ events[k].speed =
                FMul(FMul(baseSpeed, FAdd(N(1), FMul(DifficultyAt(events[k]), Dec(8, 10)))),
                     Dec(12, 10))

\* the midpoint of two times, rounded to a representable number
Midpoint(a, b) == RoundRat(a + b, 2)

\* the condition of the claim for a sub-beat between A and B
LongLoudGap(A, B) ==
    /\ FSub(B.time, A.time) > FMul(FDiv(N(60), N(audio.bpm)), Dec(15, 10))
    /\ getEnergyAt(audio.energyMap, Midpoint(A.time, B.time)).total > Dec(6, 10)

\* the sub-beat event of the claim after the beat-pass event A
ClaimedSubBeat(A, B) ==
    LET g == A.gaps[1]
        speed == FMul(A.speed, Dec(9, 10))
    IN  [time |-> Midpoint(A.time, B.time),
         spawnTime |-> FSub(Midpoint(A.time, B.time), FDiv(spawnRadius, speed)),
         gaps |-> <<g, (g + 3) % 6>>,
         speed |-> speed,
         thickness |-> Dec(3, 10)]

\* the pairs of consecutive beat-pass events with a long loud gap
LongLoudGaps == {i \in 1..(Len(events) - 1) : LongLoudGap(events[i], events[i + 1])}

\* the step from the end of the beat walk to the finished list
Densified(before, after) ==
    /\ \A k \in 1..Len(before) : Includes(after, before[k])
    /\ Len(after) = Len(before) + Cardinality(LongLoudGaps)
    /\ \A i \in 1..(Len(before) - 1) :
          LET A == before[i]
              B == before[i + 1]
              between == {ev \in Items(after) \ Items(before) :
                             A.time < ev.time /\ ev.time < B.time}
          IN  IF i \in LongLoudGaps THEN between = {ClaimedSubBeat(A, B)}
              ELSE between = {}

(* C24: the end of generate() adds one event between two consecutive        *)
(* beat-pass events A and B exactly when B.time - A.time is more than 1.5   *)
(* beat intervals and the total energy at the midpoint is above 0.6.  The   *)
(* event arrives at the midpoint, is open at A.gaps[0] and the side         *)
(* opposite, runs at 0.9 times A's speed and spawns a travel time at that   *)
(* speed earlier.  Nothing else is added and the beat-pass events stay as   *)
(* they were.                                                               *)
C24_SubBeatDensification ==
    [][(pc = "beats" /\ pc' = "done") => Densified(events, events')]_vars

\* the beat-pass events of the finished list
BeatPassEvents == {ev \in Items(events) : ~IsSubBeat(ev)}

\* no beat-pass event arrives between A and B
Consecutive(A, B) ==
    /\ A.time < B.time
    /\ ~\E C \in BeatPassEvents : A.time < C.time /\ C.time < B.time

\* a finished list with a long loud gap and the claimed sub-beat event in it
C24_Witness ==
    /\ pc = "done"
    /\ \E A, B \in BeatPassEvents :
          /\ Consecutive(A, B)
          /\ LongLoudGap(A, B)
          /\ Includes(events, ClaimedSubBeat(A, B))
          /\ Cardinality(Items(events) \ BeatPassEvents) = 1

\* a finished list with a long gap that has a quiet midpoint and no event
C24_QuietGapReached ==
    /\ pc = "done"
    /\ \E A, B \in BeatPassEvents :
          /\ Consecutive(A, B)
          /\ FSub(B.time, A.time) > FMul(FDiv(N(60), N(audio.bpm)), Dec(15, 10))
          /\ ~LongLoudGap(A, B)
          /\ ~\E ev \in Items(events) : A.time < ev.time /\ ev.time < B.time

\* the slowest speed of the branches, and of a sub-beat event after it
SlowestSpeed == FMul(baseSpeed, Dec(7, 10))

SlowestSubBeatSpeed == FMul(SlowestSpeed, Dec(9, 10))

(* C25: the grace period is longer than the travel time of every generated  *)
(* event, beat-pass or sub-beat, so that every spawnTime is above 0 and     *)
(* getEventsForTime(0) on the fresh list hands out nothing.                 *)
C25_GraceCoversTravel ==
    /\ \A k \in 1..Len(events) :
          /\ events[k].speed >= SlowestSubBeatSpeed
          /\ ~IsSubBeat(events[k]) => events[k].speed >= SlowestSpeed
          /\ FDiv(spawnRadius, events[k].speed) < gracePeriod
          /\ events[k].time >= gracePeriod
          /\ events[k].spawnTime > 0
    /\ FDiv(spawnRadius, SlowestSubBeatSpeed) < gracePeriod
    /\ dueCount(events, 0, 0) = 0

\* a finished list with a beat-pass event at the slowest branch speed and a
\* sub-beat event at 0.9 times that speed
C25_Witness ==
    /\ pc = "done"
    /\ \E i, j \in 1..Len(events) :
          /\ ~IsSubBeat(events[i])
          /\ events[i].speed = SlowestSpeed
          /\ IsSubBeat(events[j])
          /\ events[j].speed = SlowestSubBeatSpeed
          /\ events[j].spawnTime > 0
          /\ events[j].spawnTime = FSub(events[j].time,
                                        FDiv(spawnRadius, SlowestSubBeatSpeed))

Sides == 0..(HEX_SIDES - 1)

\* the sides spawnPattern builds a wall on
ClosedSides(gaps) == {side \in Sides : ~Includes(gaps, side)}

WellFormedGaps(gaps) ==
    /\ gaps # <<>>
    /\ Len(gaps) <= 4
    /\ \A i \in 1..Len(gaps) : gaps[i] \in Sides
    /\ \A i, j \in 1..Len(gaps) : i # j => gaps[i] # gaps[j]
    /\ Cardinality(Sides \ ClosedSides(gaps)) >= 1
    /\ Cardinality(ClosedSides(gaps)) >= 2

(* C26: every event of the list has a non-empty list of at most four        *)
(* different sides 0..5 as its gaps (a nominal pattern of one to three      *)
(* sides and at most one forced shared side), so the obstacle built from    *)
(* it has at least one open and at least two closed sides.                  *)
C26_WellFormedGaps ==
    /\ \A k \in 1..Len(events) : WellFormedGaps(events[k].gaps)
    /\ pc = "beats" =>
          \A k \in 1..Len(events) :
             /\ Len(loop.nominal[k]) \in 1..3
             /\ Len(events[k].gaps) <= Len(loop.nominal[k]) + 1

\* a finished list with an event of one gap and an event of three nominal
\* gaps and a forced fourth, which leaves two closed sides
C26_Witness ==
    /\ pc = "done"
    /\ \E i, j \in 1..Len(events) :
          /\ Len(events[i].gaps) = 1
          /\ Len(events[j].gaps) = 4
          /\ Cardinality(ClosedSides(events[j].gaps)) = 2

\* a finished list with a sub-beat event, whose gaps are two opposite sides
C26_SubBeatReached ==
    /\ pc = "done"
    /\ \E k \in 1..Len(events) :
          /\ IsSubBeat(events[k])
          /\ Len(events[k].gaps) = 2
          /\ Cardinality(ClosedSides(events[k].gaps)) = 4

\* source.onended runs for a node that stop() has stopped
LateEnded == endedPending' < endedPending

(* C27: isPlaying follows the source that play() started last: an "ended"   *)
(* event that arrives late, for a node that stop() has stopped before, does *)
(* not set isPlaying to false while the new source plays.                   *)
C27_LateEndedKeepsPlaying ==
    [][(LateEnded /\ source = 1 /\ isPlaying) => isPlaying']_vars

\* a frame of a started game has run on the clock that a late "ended" event
\* has frozen: the new source plays and isPlaying is false
C27_FrozenClockReached ==
    /\ state = "PLAYING"
    /\ source = 1
    /\ ~isPlaying
    /\ started.queried
    /\ endedPending = 0

\* _update(dt) runs in state PLAYING after the node has played to its end
FrameAfterEnd ==
    /\ state = "PLAYING"
    /\ source = 2
    /\ ~isPlaying
    /\ ctxTime' = FAdd(ctxTime, Step)

(* C28: a track that has played to its end ends the session: when the      *)
(* "ended" event of the playing node has been delivered in state PLAYING,   *)
(* the frame that follows runs _onSongComplete (or _onGameOver) and the     *)
(* state becomes GAME_OVER; the game does not stay in PLAYING with the      *)
(* clock frozen at pauseOffset.                                             *)
C28_FinishedTrackEndsSession ==
    [][FrameAfterEnd => state' = "GAME_OVER"]_vars

\* the track has ended, two frames and more have run since, the field is
\* empty, every event has been handed out or the clock stands at 0, and the
\* state is still PLAYING
C28_StuckReached ==
    /\ state = "PLAYING"
    /\ source = 2
    /\ ~isPlaying
    /\ endedPending = 0
    /\ walls = <<>>
    /\ timers = <<>>
    /\ currentTime(Playback, ctxTime) = pauseOffset
    /\ pauseOffset < FSub(audio.duration, Dec(5, 10))
    /\ ctxTime >= FAdd(FAdd(startTime, audio.duration), FAdd(Step, Step))

\* a PLAYING session ends in this step
SessionEnds == state = "PLAYING" /\ state' = "GAME_OVER"

\* what _onGameOver does and _onSongComplete does not, and the reverse
ByGameOverOnly ==
    /\ overBy' = "death"
    /\ deathAudioTime' = currentTime(Playback, ctxTime')
    /\ timers' = timers \o (IF isPlaying THEN <<"fadeStop">> ELSE <<>>) \o <<"showGameOver">>
    /\ <<isPlaying, source, pauseOffset, startTime, endedPending>>' =
          <<isPlaying, source, pauseOffset, startTime, endedPending>>

BySongCompleteOnly ==
    /\ overBy' = "complete"
    /\ deathAudioTime' = deathAudioTime
    /\ timers' = Append(timers, "showVictory")
    /\ ~isPlaying' /\ source' = 0 /\ pauseOffset' = 0
    /\ currentTime(Playback, ctxTime') >= FSub(audio.duration, Dec(5, 10))

(* C29: each PLAYING session is ended by one handler.  A frame that ends    *)
(* the session has the effects of _onGameOver alone or of _onSongComplete   *)
(* alone, and those of _onGameOver whenever a wall is hit, also at the end  *)
(* of the song; from then until the timer runs isTransitioning is true, the *)
(* state stays GAME_OVER, nothing continues the game and no second timer is *)
(* set; the timer calls showGameOver once and leaves isTransitioning false. *)
C29_OneHandlerPerSession ==
    /\ [](/\ isTransitioning => state = "GAME_OVER"
          /\ Len(ShowTimers(timers)) = IF isTransitioning THEN 1 ELSE 0)
    /\ [][/\ SessionEnds =>
                /\ ~isTransitioning /\ isTransitioning'
                /\ ByGameOverOnly \/ BySongCompleteOnly
          /\ isTransitioning =>
                /\ state' = state /\ overBy' = overBy /\ deathAudioTime' = deathAudioTime
                /\ walls' = walls /\ started' = started
                /\ Len(ShowTimers(timers')) <= Len(ShowTimers(timers))
          /\ Len(ShowTimers(timers')) < Len(ShowTimers(timers)) =>
                /\ isTransitioning /\ ~isTransitioning'
                /\ screen # "gameover" /\ screen' = "gameover"]_vars

\* a wall was hit in the frame that also reached the end of the song, and
\* the game-over screen has been shown since, once
C29_Witness ==
    /\ state = "GAME_OVER"
    /\ overBy = "death"
    /\ deathAudioTime >= FSub(audio.duration, Dec(5, 10))
    /\ ~isTransitioning
    /\ screen = "gameover"
    /\ timers = <<>>

\* a session that the end of the song has ended, the screen shown
C29_CompleteReached ==
    /\ state = "GAME_OVER"
    /\ overBy = "complete"
    /\ ~isTransitioning
    /\ screen = "gameover"

\* the pending timers of fadeOut
FadeTimers(ts) == SelectSeq(ts, LAMBDA t : t = "fadeStop")

(* C30: after a death and an accepted continue the track plays from the     *)
(* saved death time.  The stop() that fadeOut has scheduled runs while the  *)
(* game is still in its transition, before a continue can be accepted: no   *)
(* such timer is pending once isTransitioning is false, so it does not stop *)
(* the resumed playback or reset its pauseOffset; and when _onContinue      *)
(* calls play() nothing counts as playing, so play() starts a new node, at  *)
(* the death time.                                                          *)
C30_ContinueResumesPlayback ==
    /\ [](~isTransitioning => FadeTimers(timers) = <<>>)
    /\ [][/\ ContinueAfterDeath =>
                /\ ~isPlaying
                /\ isPlaying'
                /\ source' = 1
                /\ deathAudioTime # Undefined
                /\ pauseOffset' = deathAudioTime
                /\ startTime' = FSub(ctxTime, deathAudioTime)
                /\ currentTime(Playback', ctxTime') = deathAudioTime
          /\ Len(FadeTimers(timers')) < Len(FadeTimers(timers)) =>
                /\ state = "GAME_OVER" /\ state' = "GAME_OVER"
                /\ isTransitioning /\ isTransitioning'
                /\ overBy = "death"
                /\ ~isPlaying']_vars

\* a continue has been accepted after a death in mid-track: the node that
\* faded out has been stopped, its "ended" event is still to come, and the
\* new node plays from the death time
C30_Witness ==
    /\ state = "PLAYING"
    /\ started.by = "continue"
    /\ ~started.queried
    /\ overBy = "death"
    /\ deathAudioTime # Undefined
    /\ deathAudioTime > 0
    /\ isPlaying
    /\ source = 1
    /\ endedPending = 1
    /\ pauseOffset = deathAudioTime
    /\ currentTime(Playback, ctxTime) = deathAudioTime
    /\ timers = <<>>

=============================================================================
